---- MODULE Spec2Model ----
(***************************************************************************)
(* Recommendation scoring and learning engine of the gift service:         *)
(* RecommendationService.getRecommendations with calculateScore and        *)
(* getOccasionKeywords, the catalog and event repositories it reads, the   *)
(* AI explanation batch it awaits, and the event tracking that feeds the   *)
(* learning layer.                                                         *)
(*                                                                         *)
(* Text (titles, descriptions, tags, interests, occasions) is a sequence   *)
(* of one-character strings, so that toLowerCase and includes are computed *)
(* character by character.  Identifiers and category labels are only ever  *)
(* compared for equality and truthiness and are plain strings.             *)
(***************************************************************************)
EXTENDS Integers, Sequences, FiniteSets, TLC

VARIABLES
    products,            \* the Product table
    events,              \* the Event table, in timestamp order
    aiEnabled,           \* AIService.isEnabled
    pc,                  \* per call: where getRecommendations is suspended
    params,              \* per call: the RecommendationParams argument
    limit,               \* per call: the limit argument after defaulting
    candidates,          \* per call: the resolved candidate list
    groupByResult,       \* per call: the rows the groupBy query replied with
    userTopCategory,     \* per call: the resolved learning data
    topRecommendations,  \* per call: the sorted and sliced scored products
    aiPending,           \* per call: product ids whose completion is in flight
    explanations,        \* per call: the Map filled by the batch
    result,              \* per call: the value the promise resolved with
    error,               \* per call: the value the promise rejected with
    scoreArgs,           \* arguments of a direct calculateScore application
    scoreOut,            \* its return value
    diag,                \* the getUserDiagnostics call: position and locals
    http                 \* per call: the request body and the status answered

vars ==
    << products, events, aiEnabled, pc, params, limit, candidates,
       groupByResult, userTopCategory, topRecommendations, aiPending, explanations,
       result, error, scoreArgs, scoreOut, diag, http >>

callVars ==
    << pc, params, limit, candidates, groupByResult, userTopCategory, topRecommendations,
       aiPending, explanations, result, error >>

-----------------------------------------------------------------------------
(* JavaScript values *)

Null ==
    [null |-> TRUE]

Has(r, f) ==
    f \in DOMAIN r

Min(a, b) ==
    IF a <= b THEN a ELSE b

Max(a, b) ==
    IF a >= b THEN a ELSE b

UpperCase ==
    << "A", "B", "C", "D", "E", "F", "G", "H", "I", "J", "K", "L", "M",
       "N", "O", "P", "Q", "R", "S", "T", "U", "V", "W", "X", "Y", "Z" >>

LowerCase ==
    << "a", "b", "c", "d", "e", "f", "g", "h", "i", "j", "k", "l", "m",
       "n", "o", "p", "q", "r", "s", "t", "u", "v", "w", "x", "y", "z" >>

\* the lower-case letter of each upper-case letter
LowerOf ==
    [ch \in {UpperCase[i] : i \in 1..Len(UpperCase)} |->
        LowerCase[CHOOSE i \in 1..Len(UpperCase) : UpperCase[i] = ch]]

\* String.prototype.toLowerCase, one character
LowerChar(ch) ==
    IF ch \in DOMAIN LowerOf THEN LowerOf[ch] ELSE ch

\* String.prototype.toLowerCase
toLowerCase(s) ==
    [i \in 1..Len(s) |-> LowerChar(s[i])]

\* String.prototype.includes: t occurs in s as a contiguous run
includes(s, t) ==
    \E i \in 0..(Len(s) - Len(t)) : SubSeq(s, i + 1, i + Len(t)) = t

\* slice(0, end + 1): one element too many
slice0_oneMore(s, end) ==
    SubSeq(s, 1, Min(end + 1, Len(s)))

\* Array.prototype.slice(0, end)
slice0(s, end) ==
    LET stop == IF end < 0 THEN Max(Len(s) + end, 0) ELSE Min(end, Len(s))
    IN  SubSeq(s, 1, stop)

\* a sort that puts an element before the elements it compares equal to
sortByScoreDesc_unstable(s) ==
    LET a      == SubSeq(s, 1, Len(s))
        before == [i \in 1..Len(a) |->
                     Cardinality({j \in 1..Len(a) :
                                    \/ a[j].score > a[i].score
                                    \/ a[j].score = a[i].score /\ j > i})]
    IN  [k \in 1..Len(a) |-> a[CHOOSE i \in 1..Len(a) : before[i] = k - 1]]

\* the sort left out: the list stays in retrieval order
sortByScoreDesc_noSort(s) ==
    s

\* Array.prototype.sort with comparator (a, b) => b.score - a.score.
\* The sort is stable: elements that compare equal keep their order.
sortByScoreDesc(s) ==
    LET \* the array being sorted
        a      == SubSeq(s, 1, Len(s))
        \* the elements that come before a[i]: the ones with a higher score,
        \* and the ones with the same score that stood before it
        before == [i \in 1..Len(a) |->
                     Cardinality({j \in 1..Len(a) :
                                    \/ a[j].score > a[i].score
                                    \/ a[j].score = a[i].score /\ j < i})]
    IN  [k \in 1..Len(a) |-> a[CHOOSE i \in 1..Len(a) : before[i] = k - 1]]

-----------------------------------------------------------------------------
(* Numbers.  Prices and budgets of the model are whole numbers; the two    *)
(* places where the code leaves the integers are modelled by what IEEE-754 *)
(* double arithmetic yields there.                                         *)

\* params.budget * 1.15 as a double.  The literal 1.15 is the double just
\* below 1.15, and the product is rounded to the nearest double: for the
\* budgets below the result is the exact decimal product (in hundredths)
\* except where roundedDown says the double lies just under it
\* (100 * 1.15 evaluates to 114.99999999999999).
times1_15(budget) ==
    [ hundredths  |-> budget * 115,
      roundedDown |-> CASE budget = 0   -> FALSE
                        [] budget = 20  -> FALSE
                        [] budget = 40  -> FALSE
                        [] budget = 100 -> TRUE
                        [] budget = 200 -> TRUE ]

\* SQL price <= maxPrice on double precision, price a whole number
lte(price, maxPrice) ==
    \/ price * 100 < maxPrice.hundredths
    \/ price * 100 = maxPrice.hundredths /\ ~maxPrice.roundedDown

\* (product.price / params.budget) * 100: a quotient, or Infinity / NaN
\* when the divisor is 0.  For whole prices and budgets the double result
\* compares with 80 and 100 exactly as the quotient does.
pricePercentage(price, budget) ==
    IF budget = 0
    THEN IF price = 0 THEN [kind |-> "NaN"] ELSE [kind |-> "Infinity"]
    ELSE [kind |-> "finite", num |-> price * 100, den |-> budget]

\* x > n: the lower end of the range excluded
numGte_strict(x, n) ==
    CASE x.kind = "NaN"      -> FALSE
      [] x.kind = "Infinity" -> TRUE
      [] x.kind = "finite"   -> x.num > n * x.den

\* x >= n for a number x as above (budget, hence den, is never negative)
numGte(x, n) ==
    CASE x.kind = "NaN"      -> FALSE
      [] x.kind = "Infinity" -> TRUE
      [] x.kind = "finite"   -> x.num >= n * x.den

\* x <= n
numLte(x, n) ==
    CASE x.kind = "NaN"      -> FALSE
      [] x.kind = "Infinity" -> FALSE
      [] x.kind = "finite"   -> x.num <= n * x.den

-----------------------------------------------------------------------------
(* RecommendationService.getOccasionKeywords and calculateScore *)

\* the occasionMap object literal: << key, keywords >> pairs
occasionMap ==
    {
      \* birthday: birthday, celebration, party, gift
      << <<"b", "i", "r", "t", "h", "d", "a", "y">>,
         << <<"b", "i", "r", "t", "h", "d", "a", "y">>,
            <<"c", "e", "l", "e", "b", "r", "a", "t", "i", "o", "n">>,
            <<"p", "a", "r", "t", "y">>,
            <<"g", "i", "f", "t">> >> >>,
      \* anniversary: anniversary, romantic, love, couple
      << <<"a", "n", "n", "i", "v", "e", "r", "s", "a", "r", "y">>,
         << <<"a", "n", "n", "i", "v", "e", "r", "s", "a", "r", "y">>,
            <<"r", "o", "m", "a", "n", "t", "i", "c">>,
            <<"l", "o", "v", "e">>,
            <<"c", "o", "u", "p", "l", "e">> >> >>,
      \* wedding: wedding, bride, groom, marriage
      << <<"w", "e", "d", "d", "i", "n", "g">>,
         << <<"w", "e", "d", "d", "i", "n", "g">>,
            <<"b", "r", "i", "d", "e">>,
            <<"g", "r", "o", "o", "m">>,
            <<"m", "a", "r", "r", "i", "a", "g", "e">> >> >>,
      \* graduation: graduation, graduate, student, achievement
      << <<"g", "r", "a", "d", "u", "a", "t", "i", "o", "n">>,
         << <<"g", "r", "a", "d", "u", "a", "t", "i", "o", "n">>,
            <<"g", "r", "a", "d", "u", "a", "t", "e">>,
            <<"s", "t", "u", "d", "e", "n", "t">>,
            <<"a", "c", "h", "i", "e", "v", "e", "m", "e", "n", "t">> >> >>,
      \* christmas: christmas, holiday, festive, xmas
      << <<"c", "h", "r", "i", "s", "t", "m", "a", "s">>,
         << <<"c", "h", "r", "i", "s", "t", "m", "a", "s">>,
            <<"h", "o", "l", "i", "d", "a", "y">>,
            <<"f", "e", "s", "t", "i", "v", "e">>,
            <<"x", "m", "a", "s">> >> >>,
      \* valentines: valentine, romantic, love, heart
      << <<"v", "a", "l", "e", "n", "t", "i", "n", "e", "s">>,
         << <<"v", "a", "l", "e", "n", "t", "i", "n", "e">>,
            <<"r", "o", "m", "a", "n", "t", "i", "c">>,
            <<"l", "o", "v", "e">>,
            <<"h", "e", "a", "r", "t">> >> >>,
      \* mothers-day: mother, mom, maternal
      << <<"m", "o", "t", "h", "e", "r", "s", "-", "d", "a", "y">>,
         << <<"m", "o", "t", "h", "e", "r">>,
            <<"m", "o", "m">>,
            <<"m", "a", "t", "e", "r", "n", "a", "l">> >> >>,
      \* fathers-day: father, dad, paternal
      << <<"f", "a", "t", "h", "e", "r", "s", "-", "d", "a", "y">>,
         << <<"f", "a", "t", "h", "e", "r">>,
            <<"d", "a", "d">>,
            <<"p", "a", "t", "e", "r", "n", "a", "l">> >> >>,
      \* housewarming: home, house, living, kitchen
      << <<"h", "o", "u", "s", "e", "w", "a", "r", "m", "i", "n", "g">>,
         << <<"h", "o", "m", "e">>,
            <<"h", "o", "u", "s", "e">>,
            <<"l", "i", "v", "i", "n", "g">>,
            <<"k", "i", "t", "c", "h", "e", "n">> >> >>,
      \* baby: baby, newborn, infant, nursery
      << <<"b", "a", "b", "y">>,
         << <<"b", "a", "b", "y">>,
            <<"n", "e", "w", "b", "o", "r", "n">>,
            <<"i", "n", "f", "a", "n", "t">>,
            <<"n", "u", "r", "s", "e", "r", "y">> >> >>
    }

\* Property names every object literal inherits from Object.prototype and
\* that are all lower case, so that a lower-cased occasion can hit them.
inheritedKeys ==
    { <<"c", "o", "n", "s", "t", "r", "u", "c", "t", "o", "r">>,
      <<"_", "_", "p", "r", "o", "t", "o", "_", "_">> }

\* the table ignored: the occasion is always its own sole keyword
getOccasionKeywords_noTable(occasion) ==
    [array |-> << toLowerCase(occasion) >>]

\* occasionMap[occasionLower] || [occasionLower].  An inherited property is
\* truthy and is not an array.
getOccasionKeywords(occasion) ==
    LET occasionLower == toLowerCase(occasion)
    IN  IF \E e \in occasionMap : e[1] = occasionLower
        THEN [array |-> (CHOOSE e \in occasionMap : e[1] = occasionLower)[2]]
        ELSE IF occasionLower \in inheritedKeys
             THEN [notArray |-> "Object.prototype"]
             ELSE [array |-> << occasionLower >>]

\* an optional string argument: << >> is undefined, << s >> is the string s
Undefined ==
    << >>

\* Array.prototype.map(x => x.toLowerCase())
mapLower(seq) ==
    [i \in 1..Len(seq) |-> toLowerCase(seq[i])]

\* containment tested in one direction only
tagMatches_oneWay(tag, userInterests) ==
    \E j \in 1..Len(userInterests) : includes(tag, userInterests[j])

\* the predicate of productTags.filter(...) in calculateScore
tagMatches(tag, userInterests) ==
    \E j \in 1..Len(userInterests) :
        includes(tag, userInterests[j]) \/ includes(userInterests[j], tag)

\* RecommendationService.calculateScore.  Returns the breakdown object, or
\* [throws |-> ...] when evaluation raises.
calculateScore(product, p, topCategory) ==
    LET productTags   == mapLower(product.tags)
        userInterests == mapLower(p.interests)
        matches       == SelectSeq(productTags,
                                   LAMBDA tag : tagMatches(tag, userInterests))
        interestMatch == IF Len(p.interests) > 0 THEN Len(matches) * 10 ELSE 0
        pct           == pricePercentage(product.price, p.budget)
        budgetOptimization ==
            IF numGte(pct, 80) /\ numLte(pct, 100) THEN 5 ELSE 0
        \* if (params.occasion): undefined and "" are falsy
        occasionGiven == Has(p, "occasion") /\ Len(p.occasion) > 0
        occasionKeywords ==
            IF occasionGiven THEN getOccasionKeywords(p.occasion)
            ELSE [array |-> << >>]
        titleLower    == toLowerCase(product.title)
        descLower     == toLowerCase(product.description)
        hasKeyword    ==
            \E k \in 1..Len(occasionKeywords.array) :
                \/ includes(titleLower, occasionKeywords.array[k])
                \/ includes(descLower, occasionKeywords.array[k])
        occasionMatch == IF occasionGiven /\ hasKeyword THEN 5 ELSE 0
        \* if (userTopCategory && product.category === userTopCategory)
        learningBoost ==
            IF /\ topCategory # Undefined
               /\ topCategory[1] # ""
               /\ product.category = topCategory[1]
            THEN 15 ELSE 0
    IN  IF occasionGiven /\ ~Has(occasionKeywords, "array")
        THEN [throws |-> "TypeError"]   \* occasionKeywords.some is not a function
        ELSE [ interestMatch      |-> interestMatch,
               budgetOptimization |-> budgetOptimization,
               occasionMatch      |-> occasionMatch,
               learningBoost      |-> learningBoost ]

-----------------------------------------------------------------------------
(* Repositories *)

\* findMany orders by createdAt desc: newest first
newestFirst(S) ==
    LET \* the number of rows created after x; no two rows of a table of
        \* the model have the same createdAt
        newer == [x \in S |-> Cardinality({y \in S : y.createdAt > x.createdAt})]
    IN  [k \in 1..Cardinality(S) |-> CHOOSE x \in S : newer[x] = k - 1]

\* ProductRepository.getRecommendationCandidates
getRecommendationCandidates(maxPrice, take) ==
    slice0(newestFirst({x \in products : lte(x.price, maxPrice)}), take)

\* the counts of an earlier lookup served again: the rows on the Event
\* table as it was before its newest row
groupByProductId_stale(userId) ==
    LET before == SubSeq(events, 1, Len(events) - 1)
        mine   == {i \in 1..Len(before) : before[i].userId = userId}
    IN  { [ productId |-> id,
            count     |-> Cardinality({i \in mine : before[i].productId = id}) ] :
          id \in {before[i].productId : i \in mine} }

\* the rows of prisma.event.groupBy({ by: ['productId'], where: { userId } }):
\* one row per product id the user has events on, with the number of them
groupByProductId(userId) ==
    { [ productId |-> id,
        count     |-> Cardinality({i \in 1..Len(events) :
                                     /\ events[i].userId = userId
                                     /\ events[i].productId = id}) ] :
      id \in {events[i].productId : i \in {j \in 1..Len(events) :
                                             events[j].userId = userId}} }

\* groupBy has no orderBy: the rows come in an order the database chooses
RowOrders(rows) ==
    {s \in [1..Cardinality(rows) -> rows] :
        \A i, j \in 1..Cardinality(rows) : i # j => s[i] # s[j]}

\* productCategoryMap.get(productId): undefined when no product has the id
categoryOf(productId) ==
    IF \E x \in products : x.id = productId
    THEN << (CHOOSE x \in products : x.id = productId).category >>
    ELSE Undefined

\* each product counted once, however many events the user has on it
RECURSIVE countCategories_perProduct(_, _)
countCategories_perProduct(rows, acc) ==
    IF rows = << >>
    THEN acc
    ELSE LET r        == Head(rows)
             category == categoryOf(r.productId)
             at       == {i \in 1..Len(acc) : << acc[i].category >> = category}
         IN  IF category = Undefined \/ category[1] = ""
             THEN countCategories_perProduct(Tail(rows), acc)
             ELSE IF at = {}
                  THEN countCategories_perProduct(Tail(rows),
                           Append(acc, [category |-> category[1], count |-> 1]))
                  ELSE countCategories_perProduct(Tail(rows),
                           [acc EXCEPT ![CHOOSE i \in at : TRUE].count = @ + 1])

\* result.forEach(...) filling the categoryCount Map; a Map iterates in
\* insertion order, kept here as a sequence of [category, count] entries
RECURSIVE countCategories(_, _)
countCategories(rows, acc) ==
    IF rows = << >>
    THEN acc
    ELSE LET r        == Head(rows)
             category == categoryOf(r.productId)
             at       == {i \in 1..Len(acc) : << acc[i].category >> = category}
         IN  IF category = Undefined \/ category[1] = ""
             THEN countCategories(Tail(rows), acc)
             ELSE IF at = {}
                  THEN countCategories(Tail(rows),
                           Append(acc, [category |-> category[1],
                                        count    |-> r.count]))
                  ELSE countCategories(Tail(rows),
                           [acc EXCEPT ![CHOOSE i \in at : TRUE].count = @ + r.count])

\* categoryCount.forEach(...) keeping the first entry with the largest count
RECURSIVE pickTop(_, _)
pickTop(entries, topCategory) ==
    IF entries = << >>
    THEN topCategory
    ELSE LET e == Head(entries)
         IN  IF topCategory = Null \/ e.count > topCategory.count
             THEN pickTop(Tail(entries), e)
             ELSE pickTop(Tail(entries), topCategory)

\* EventRepository.getUserTopCategory for one order of the groupBy rows
topCategoryFor(rows) ==
    IF rows = << >>
    THEN Null
    ELSE pickTop(countCategories(rows, << >>), Null)

\* the values getUserTopCategory resolves with when no event is recorded
\* between its two queries
getUserTopCategory(userId) ==
    {topCategoryFor(rows) : rows \in RowOrders(groupByProductId(userId))}

-----------------------------------------------------------------------------
(* Bounds and input sets *)

MaxEvents ==
    2

\* the second parameter default of getRecommendations
DefaultLimit ==
    20

\* no cap: the lookup takes as many rows as the Product table holds
CandidateLimit_unbounded ==
    Cardinality(products)

\* the take argument getRecommendations passes to the catalog lookup
CandidateLimit ==
    100

\* the slice of the top recommendations getRecommendations hands to the batch
TopForAI ==
    5

\* the limit parameter default of generateBatchExplanations
BatchLimit ==
    5

Calls ==
    {1, 2}

\* "Gaming Keyboard", the first product of the service test
GamingKeyboard ==
    [ id          |-> "p1",
      title       |-> <<"G", "a", "m", "i", "n", "g", " ", "K", "e", "y", "b", "o", "a", "r", "d">>,
      description |-> <<"M", "e", "c", "h", "a", "n", "i", "c", "a", "l", " ", "k", "e", "y", "b", "o", "a", "r", "d", " ", "f", "o", "r", " ", "g", "a", "m", "e", "r", "s">>,
      price       |-> 80,
      category    |-> "Electronics",
      tags        |-> << <<"g", "a", "m", "i", "n", "g">>,
                       <<"t", "e", "c", "h">>,
                       <<"c", "o", "m", "p", "u", "t", "e", "r">> >>,
      createdAt   |-> 1 ]

\* "Coffee Maker", the second product of the service test
CoffeeMaker ==
    [ id          |-> "p2",
      title       |-> <<"C", "o", "f", "f", "e", "e", " ", "M", "a", "k", "e", "r">>,
      description |-> <<"P", "r", "e", "m", "i", "u", "m", " ", "e", "s", "p", "r", "e", "s", "s", "o", " ", "m", "a", "c", "h", "i", "n", "e">>,
      price       |-> 150,
      category    |-> "Home",
      tags        |-> << <<"c", "o", "f", "f", "e", "e">>,
                       <<"k", "i", "t", "c", "h", "e", "n">>,
                       <<"h", "o", "m", "e">> >>,
      createdAt   |-> 2 ]

\* "Espresso Machine", priced at 115 = 100 x 1.15
EspressoMachine ==
    [ id          |-> "p8",
      title       |-> <<"E", "s", "p", "r", "e", "s", "s", "o", " ", "M", "a", "c", "h", "i", "n", "e">>,
      description |-> <<"P", "r", "e", "m", "i", "u", "m", " ", "e", "s", "p", "r", "e", "s", "s", "o", " ", "m", "a", "c", "h", "i", "n", "e">>,
      price       |-> 115,
      category    |-> "Home",
      tags        |-> << <<"c", "o", "f", "f", "e", "e">>,
                       <<"k", "i", "t", "c", "h", "e", "n">>,
                       <<"h", "o", "m", "e">> >>,
      createdAt   |-> 2 ]

\* "Birthday Gift Basket", the third product of the service test
GiftBasket ==
    [ id          |-> "p3",
      title       |-> <<"B", "i", "r", "t", "h", "d", "a", "y", " ", "G", "i", "f", "t", " ", "B", "a", "s", "k", "e", "t">>,
      description |-> <<"P", "e", "r", "f", "e", "c", "t", " ", "f", "o", "r", " ", "b", "i", "r", "t", "h", "d", "a", "y", " ", "c", "e", "l", "e", "b", "r", "a", "t", "i", "o", "n", "s">>,
      price       |-> 90,
      category    |-> "Food",
      tags        |-> << <<"g", "i", "f", "t">>,
                       <<"b", "i", "r", "t", "h", "d", "a", "y">>,
                       <<"f", "o", "o", "d">> >>,
      createdAt   |-> 3 ]

\* "Gift Card", priced at 23 = 20 x 1.15, with a tag stored twice in two spellings
GiftCard ==
    [ id          |-> "p4",
      title       |-> <<"G", "i", "f", "t", " ", "C", "a", "r", "d">>,
      description |-> <<"A", " ", "c", "a", "r", "d", " ", "f", "o", "r", " ", "a", "n", "y", " ", "s", "h", "o", "p">>,
      price       |-> 23,
      category    |-> "Food",
      tags        |-> << <<"T", "e", "c", "h">>,
                       <<"t", "e", "c", "h">> >>,
      createdAt   |-> 4 ]

\* "Free Sample", free, without category label or tags
FreeSample ==
    [ id          |-> "p5",
      title       |-> <<"F", "r", "e", "e", " ", "S", "a", "m", "p", "l", "e">>,
      description |-> <<"S", "a", "m", "p", "l", "e">>,
      price       |-> 0,
      category    |-> "",
      tags        |-> << >>,
      createdAt   |-> 5 ]

Pool ==
    {GamingKeyboard, EspressoMachine, GiftBasket, GiftCard, FreeSample}

\* the Product tables the service is run on: every table of at most two
\* products of the pool, the three products of the service test, and two
\* tables with four candidates under a budget of 100
Catalogs ==
    {S \in SUBSET Pool : Cardinality(S) <= 2}
    \cup { {GamingKeyboard, CoffeeMaker, GiftBasket},
           {GamingKeyboard, GiftBasket, GiftCard, FreeSample},
           Pool }

\* "Yoga Mat", of a category and with tags no other product has
YogaMat ==
    [ id          |-> "p6",
      title       |-> <<"Y", "o", "g", "a", " ", "M", "a", "t">>,
      description |-> <<"N", "o", "n", "-", "s", "l", "i", "p", " ", "m", "a", "t">>,
      price       |-> 30,
      category    |-> "Sports",
      tags        |-> << <<"f", "i", "t", "n", "e", "s", "s">>,
                       <<"y", "o", "g", "a">> >>,
      createdAt   |-> 6 ]

\* "Novel", the newest product
Novel ==
    [ id          |-> "p7",
      title       |-> <<"N", "o", "v", "e", "l">>,
      description |-> <<"A", " ", "p", "a", "p", "e", "r", "b", "a", "c", "k">>,
      price       |-> 15,
      category    |-> "Books",
      tags        |-> << <<"r", "e", "a", "d", "i", "n", "g">> >>,
      createdAt   |-> 7 ]

\* a Product table with six categories, thirteen tags and seven candidates
\* under a budget of 200
LargeCatalog ==
    Pool \cup {YogaMat, Novel}

\* the bodies posted to the events route: userId, productId, eventType
TrackInputs ==
    { << "u1", "p1", "VIEW_PRODUCT" >>,
      << "u1", "p3", "CLICK_OUT" >>,
      << "u1", "p4", "SAVE_PRODUCT" >>,
      << "u2", "p5", "VIEW_PRODUCT" >> }

\* RecommendationParams values, as the controller passes them on
Requests ==
    { \* the request of the service test
      [ userId    |-> "u1",
        budget    |-> 100,
        interests |-> << <<"g", "a", "m", "i", "n", "g">>, <<"t", "e", "c", "h">> >> ],
      \* interests in other spellings, a table occasion, a relationship
      [ userId       |-> "u1",
        budget       |-> 100,
        interests    |-> << <<"T", "E", "C", "H">>,
                            <<"t", "e", "c", "h", "n", "o", "l", "o", "g", "y">> >>,
        occasion     |-> <<"b", "i", "r", "t", "h", "d", "a", "y">>,
        relationship |-> "friend" ],
      \* an occasion outside the table
      [ userId    |-> "u1",
        budget    |-> 20,
        interests |-> << <<"g", "i", "f", "t">> >>,
        occasion  |-> <<"C", "a", "r", "d">> ],
      \* no budget
      [ userId    |-> "u2",
        budget    |-> 0,
        interests |-> << <<"s", "a", "m", "p", "l", "e">> >> ],
      \* an occasion that names an inherited property
      [ userId    |-> "u2",
        budget    |-> 100,
        interests |-> << <<"f", "o", "o", "d">> >>,
        occasion  |-> <<"c", "o", "n", "s", "t", "r", "u", "c", "t", "o", "r">> ] }

\* the argument list after params: nothing, or the limit
LimitArgs ==
    {<< >>, << 1 >>, << 2 >>}

-----------------------------------------------------------------------------
(* RecommendationService.getRecommendations *)

EmptyMap ==
    [x \in {} |-> x]

\* steps 3 and 4: score each candidate, sort, slice.  A sequence of scored
\* products, or [throws |-> ...] when calculateScore raises.
scoreAndRank(cands, p, lim, topCategory) ==
    LET breakdowns ==
            [i \in 1..Len(cands) |-> calculateScore(cands[i], p, topCategory)]
        scoredProducts ==
            [i \in 1..Len(cands) |->
                [ score |-> breakdowns[i].interestMatch
                            + breakdowns[i].budgetOptimization
                            + breakdowns[i].occasionMatch
                            + breakdowns[i].learningBoost,
                  scoreBreakdown |-> breakdowns[i] ] @@ cands[i]]
    IN  IF \E i \in 1..Len(cands) : Has(breakdowns[i], "throws")
        THEN [throws |-> "TypeError"]
        ELSE [list |-> slice0(sortByScoreDesc(scoredProducts), lim)]

\* the learning data not handed to calculateScore
categoryArg_dropped(top) ==
    Undefined

\* userTopCategory?.category
categoryArg(top) ==
    IF top = Null THEN Undefined ELSE << top.category >>

\* the call: evaluates maxPrice and issues the catalog lookup
GetRecommendations(c, p, args) ==
    /\ pc[c] = "idle"
    /\ pc' = [pc EXCEPT ![c] = "candidates"]
    /\ params' = [params EXCEPT ![c] = p]
    /\ limit' = [limit EXCEPT ![c] = IF args = << >> THEN DefaultLimit ELSE args[1]]
    /\ UNCHANGED << products, events, aiEnabled, candidates, userTopCategory,
                    topRecommendations, aiPending, explanations, result, error,
                    scoreArgs, scoreOut,
                    diag, http, groupByResult >>

\* the catalog lookup resolves; no candidates returns []
CandidatesResolve(c) ==
    /\ pc[c] = "candidates"
    /\ LET found == getRecommendationCandidates(times1_15(params[c].budget),
                                                CandidateLimit)
       IN  /\ candidates' = [candidates EXCEPT ![c] = found]
           /\ IF Len(found) = 0
              THEN /\ pc' = [pc EXCEPT ![c] = "resolved"]
                   /\ result' = [result EXCEPT ![c] = << >>]
              ELSE /\ pc' = [pc EXCEPT ![c] = "topCategory"]
                   /\ UNCHANGED result
    /\ UNCHANGED << products, events, aiEnabled, params, limit, userTopCategory,
                    topRecommendations, aiPending, explanations, error,
                    scoreArgs, scoreOut,
                    diag, http, groupByResult >>

\* a failed catalog lookup answered with the empty list
CandidatesReject_emptyList(c) ==
    /\ pc[c] = "candidates"
    /\ pc' = [pc EXCEPT ![c] = "resolved"]
    /\ result' = [result EXCEPT ![c] = << >>]
    /\ UNCHANGED << products, events, aiEnabled, params, limit, candidates,
                    userTopCategory, topRecommendations, aiPending,
                    explanations, error, scoreArgs, scoreOut, diag, http, groupByResult >>

\* the catalog lookup rejects: the await rethrows
CandidatesReject(c) ==
    /\ pc[c] = "candidates"
    /\ pc' = [pc EXCEPT ![c] = "rejected"]
    /\ error' = [error EXCEPT ![c] = "getRecommendationCandidates"]
    /\ UNCHANGED << products, events, aiEnabled, params, limit, candidates,
                    userTopCategory, topRecommendations, aiPending,
                    explanations, result, scoreArgs, scoreOut,
                    diag, http, groupByResult >>

\* an explanation requested for every recommendation
batchProducts_all(list) ==
    list

\* topRecommendations.slice(0, 5), of which generateBatchExplanations takes
\* products.slice(0, limit)
batchProducts(list) ==
    slice0(slice0(list, TopForAI), BatchLimit)

\* the explanations requested without a configured key
isAIEnabled_always ==
    TRUE

\* AIService.isAIEnabled
isAIEnabled ==
    aiEnabled

\* what getRecommendations does in the turn in which getUserTopCategory
\* has returned top: scoring, sorting and slicing, and either the batch is
\* issued or the list is returned
rankWith(c, top) ==
    LET ranked == scoreAndRank(candidates[c], params[c], limit[c],
                               categoryArg(top))
    IN  /\ userTopCategory' = [userTopCategory EXCEPT ![c] = top]
        /\ IF Has(ranked, "throws")
           THEN /\ pc' = [pc EXCEPT ![c] = "rejected"]
                /\ error' = [error EXCEPT ![c] = ranked.throws]
                /\ UNCHANGED << topRecommendations, aiPending, result >>
           ELSE /\ topRecommendations' =
                       [topRecommendations EXCEPT ![c] = ranked.list]
                /\ UNCHANGED error
                /\ IF isAIEnabled /\ Len(ranked.list) > 0
                   THEN /\ pc' = [pc EXCEPT ![c] = "explanations"]
                        /\ aiPending' = [aiPending EXCEPT ![c] =
                              {batchProducts(ranked.list)[i].id :
                                 i \in 1..Len(batchProducts(ranked.list))}]
                        /\ UNCHANGED result
                   ELSE /\ pc' = [pc EXCEPT ![c] = "resolved"]
                        /\ result' = [result EXCEPT ![c] = ranked.list]
                        /\ UNCHANGED aiPending

\* prisma.event.groupBy of getUserTopCategory replies with the counts of the
\* Event table as it is now.  Without rows getUserTopCategory returns null
\* and the call goes on in the same turn; otherwise the product lookup is
\* issued and the call is suspended a second time.
GroupByResolve(c) ==
    /\ pc[c] = "topCategory"
    /\ \E rows \in RowOrders(groupByProductId(params[c].userId)) :
         /\ groupByResult' = [groupByResult EXCEPT ![c] = rows]
         /\ IF Len(rows) = 0
            THEN rankWith(c, Null)
            ELSE /\ pc' = [pc EXCEPT ![c] = "topCategoryProducts"]
                 /\ UNCHANGED << userTopCategory, topRecommendations,
                                 aiPending, result, error >>
    /\ UNCHANGED << products, events, aiEnabled, params, limit, candidates,
                    explanations, scoreArgs, scoreOut, diag, http >>

\* prisma.product.findMany of getUserTopCategory replies: the categories
\* are counted with the rows of the earlier groupBy reply, whatever has been
\* recorded since, and the call goes on in the same turn
TopCategoryResolve(c) ==
    /\ pc[c] = "topCategoryProducts"
    /\ rankWith(c, topCategoryFor(groupByResult[c]))
    /\ UNCHANGED << products, events, aiEnabled, params, limit, candidates,
                    groupByResult, explanations, scoreArgs, scoreOut,
                    diag, http >>

\* one of the two queries of the history lookup rejects
TopCategoryReject(c) ==
    /\ pc[c] \in {"topCategory", "topCategoryProducts"}
    /\ pc' = [pc EXCEPT ![c] = "rejected"]
    /\ error' = [error EXCEPT ![c] = "getUserTopCategory"]
    /\ UNCHANGED << products, events, aiEnabled, params, limit, candidates,
                    groupByResult, userTopCategory, topRecommendations,
                    aiPending, explanations, result, scoreArgs, scoreOut,
                    diag, http >>

\* the text the generation service returns for one request
GeneratedText(c, id) ==
    [text |-> << c, id >>]

\* the requests made one after the other: a completion can only arrive for
\* the first product of the list that is still waiting
ExplanationSettle_inOrder(c, id, outcome) ==
    /\ pc[c] = "explanations"
    /\ id \in aiPending[c]
    /\ \A i, j \in 1..Len(topRecommendations[c]) :
          (topRecommendations[c][j].id = id /\ i < j) =>
              topRecommendations[c][i].id \notin aiPending[c]
    /\ aiPending' = [aiPending EXCEPT ![c] = @ \ {id}]
    /\ explanations' =
          [explanations EXCEPT ![c] =
              IF outcome = "text" THEN (id :> GeneratedText(c, id)) @@ @ ELSE @]
    /\ UNCHANGED << products, events, aiEnabled, pc, params, limit, candidates,
                    userTopCategory, topRecommendations, result, error,
                    scoreArgs, scoreOut, diag, http, groupByResult >>

\* the explanations kept in one Map that every call writes to and reads
ExplanationSettle_sharedMap(c, id, outcome) ==
    /\ pc[c] = "explanations"
    /\ id \in aiPending[c]
    /\ aiPending' = [aiPending EXCEPT ![c] = @ \ {id}]
    /\ explanations' =
          [d \in Calls |->
              IF outcome = "text"
              THEN (id :> GeneratedText(c, id)) @@ explanations[d]
              ELSE explanations[d]]
    /\ UNCHANGED << products, events, aiEnabled, pc, params, limit, candidates,
                    userTopCategory, topRecommendations, result, error,
                    scoreArgs, scoreOut, diag, http, groupByResult >>

\* a failed completion left uncaught: Promise.all rejects and the call fails
ExplanationSettle_failFast(c, id, outcome) ==
    /\ pc[c] = "explanations"
    /\ id \in aiPending[c]
    /\ aiPending' = [aiPending EXCEPT ![c] = @ \ {id}]
    /\ IF outcome = "error"
       THEN /\ pc' = [pc EXCEPT ![c] = "rejected"]
            /\ error' = [error EXCEPT ![c] = "generateGiftExplanation"]
            /\ UNCHANGED explanations
       ELSE /\ explanations' =
                  [explanations EXCEPT ![c] =
                      IF outcome = "text" THEN (id :> GeneratedText(c, id)) @@ @ ELSE @]
            /\ UNCHANGED << pc, error >>
    /\ UNCHANGED << products, events, aiEnabled, params, limit, candidates,
                    userTopCategory, topRecommendations, result, scoreArgs,
                    scoreOut, diag, http, groupByResult >>

\* AIService.generateGiftExplanation settles for one product: with text,
\* with empty content, or with an error that is caught; the last two are null
ExplanationSettle(c, id, outcome) ==
    /\ pc[c] = "explanations"
    /\ id \in aiPending[c]
    /\ aiPending' = [aiPending EXCEPT ![c] = @ \ {id}]
    /\ explanations' =
          [explanations EXCEPT ![c] =
              IF outcome = "text" THEN (id :> GeneratedText(c, id)) @@ @ ELSE @]
    /\ UNCHANGED << products, events, aiEnabled, pc, params, limit, candidates,
                    userTopCategory, topRecommendations, result, error,
                    scoreArgs, scoreOut,
                    diag, http, groupByResult >>

\* explanations.get(product.id) || null
explanationOrNull(map, id) ==
    IF id \in DOMAIN map THEN map[id] ELSE Null

\* Promise.all settles: the explanations are attached and the list returned
BatchResolve(c) ==
    /\ pc[c] = "explanations"
    /\ aiPending[c] = {}
    /\ pc' = [pc EXCEPT ![c] = "resolved"]
    /\ result' = [result EXCEPT ![c] =
          [i \in 1..Len(topRecommendations[c]) |->
              [aiExplanation |->
                  explanationOrNull(explanations[c], topRecommendations[c][i].id)]
              @@ topRecommendations[c][i]]]
    /\ UNCHANGED << products, events, aiEnabled, params, limit, candidates,
                    userTopCategory, topRecommendations, aiPending,
                    explanations, error, scoreArgs, scoreOut,
                    diag, http, groupByResult >>

\* the caller has the outcome; nothing of the call is kept
Respond(c) ==
    /\ pc[c] \in {"resolved", "rejected"}
    /\ pc' = [pc EXCEPT ![c] = "idle"]
    /\ params' = [params EXCEPT ![c] = Null]
    /\ limit' = [limit EXCEPT ![c] = 0]
    /\ candidates' = [candidates EXCEPT ![c] = << >>]
    /\ groupByResult' = [groupByResult EXCEPT ![c] = << >>]
    /\ userTopCategory' = [userTopCategory EXCEPT ![c] = Null]
    /\ topRecommendations' = [topRecommendations EXCEPT ![c] = << >>]
    /\ aiPending' = [aiPending EXCEPT ![c] = {}]
    /\ explanations' = [explanations EXCEPT ![c] = EmptyMap]
    /\ result' = [result EXCEPT ![c] = << >>]
    /\ error' = [error EXCEPT ![c] = ""]
    /\ UNCHANGED << products, events, aiEnabled, scoreArgs, scoreOut,
                    diag, http >>

-----------------------------------------------------------------------------
(* Event tracking *)

\* the newest row overwritten instead of a row added
TrackEvent_replaceLast(userId, productId, eventType) ==
    /\ Len(events) < MaxEvents
    /\ \E x \in products : x.id = productId
    /\ LET row == [ userId    |-> userId,
                    productId |-> productId,
                    eventType |-> eventType ]
       IN  events' = IF events = << >>
                     THEN << row >>
                     ELSE [events EXCEPT ![Len(events)] = row]
    /\ UNCHANGED << products, aiEnabled, callVars, scoreArgs, scoreOut, diag, http >>

\* EventRepository.createEvent: one row is appended.  Event.productId is a
\* foreign key into Product.
TrackEvent(userId, productId, eventType) ==
    /\ Len(events) < MaxEvents
    /\ \E x \in products : x.id = productId
    /\ events' = Append(events, [ userId    |-> userId,
                                  productId |-> productId,
                                  eventType |-> eventType ])
    /\ UNCHANGED << products, aiEnabled, callVars, scoreArgs, scoreOut,
                    diag, http >>

-----------------------------------------------------------------------------
(* LearningService.getUserDiagnostics *)

\* the limit getUserDiagnostics passes to getUserEvents
DiagnosticsEventLimit ==
    100

\* the end of the slice that makes topCategories
TopCategoriesLimit ==
    5

\* the end of the slice that makes topBoostedTags
TopBoostedTagsLimit ==
    10

\* the events with another user's rows among them
getUserEvents_anyUser(userId, take) ==
    slice0([i \in 1..Len(events) |-> events[Len(events) + 1 - i]], take)

\* EventRepository.getUserEvents: where userId, orderBy timestamp desc, take
getUserEvents(userId, take) ==
    LET mine == SelectSeq(events, LAMBDA e : e.userId = userId)
    IN  slice0([i \in 1..Len(mine) |-> mine[Len(mine) + 1 - i]], take)

\* [...new Set(events.map(e => e.productId))]: first occurrences, in order
RECURSIVE uniqueProductIds(_, _)
uniqueProductIds(evs, acc) ==
    IF evs = << >>
    THEN acc
    ELSE IF \E i \in 1..Len(acc) : acc[i] = Head(evs).productId
         THEN uniqueProductIds(Tail(evs), acc)
         ELSE uniqueProductIds(Tail(evs), Append(acc, Head(evs).productId))

\* ProductRepository.getProductsByIds: where id in productIds
getProductsByIds(productIds) ==
    {x \in products : \E i \in 1..Len(productIds) : productIds[i] = x.id}

\* productMap.get(id): undefined when the fetched products hold no such id
productMapGet(fetched, id) ==
    IF \E x \in fetched : x.id = id
    THEN << CHOOSE x \in fetched : x.id = id >>
    ELSE Undefined

\* a key counted once however often it comes
increment_once(entries, key) ==
    IF \E i \in 1..Len(entries) : entries[i][1] = key
    THEN entries
    ELSE Append(entries, << key, 1 >>)

\* map.set(key, (map.get(key) || 0) + 1) on a Map kept as its entries, a
\* sequence of << key, value >> in insertion order
increment(entries, key) ==
    LET at == {i \in 1..Len(entries) : entries[i][1] = key}
    IN  IF at = {}
        THEN Append(entries, << key, 1 >>)
        ELSE [entries EXCEPT ![CHOOSE i \in at : TRUE] = << key, @[2] + 1 >>]

\* product.tags.forEach(tag => tagCount.set(tag, ...))
RECURSIVE incrementAll(_, _)
incrementAll(entries, keys) ==
    IF keys = << >>
    THEN entries
    ELSE incrementAll(increment(entries, Head(keys)), Tail(keys))

\* events.forEach(...) filling categoryCount
RECURSIVE categoryCount(_, _, _)
categoryCount(evs, fetched, entries) ==
    IF evs = << >>
    THEN entries
    ELSE LET product == productMapGet(fetched, Head(evs).productId)
         IN  IF product = Undefined
             THEN categoryCount(Tail(evs), fetched, entries)
             ELSE categoryCount(Tail(evs), fetched,
                                increment(entries, product[1].category))

\* events.forEach(...) filling tagCount
RECURSIVE tagCount(_, _, _)
tagCount(evs, fetched, entries) ==
    IF evs = << >>
    THEN entries
    ELSE LET product == productMapGet(fetched, Head(evs).productId)
         IN  IF product = Undefined
             THEN tagCount(Tail(evs), fetched, entries)
             ELSE tagCount(Tail(evs), fetched,
                           incrementAll(entries, product[1].tags))

\* the entries left in insertion order
sortDescBy_noSort(s, f) ==
    s

\* Array.prototype.sort with comparator (a, b) => b[f] - a[f]; stable
RECURSIVE sortDescBy(_, _)
sortDescBy(s, f) ==
    IF Len(s) <= 1
    THEN s
    ELSE LET rest   == sortDescBy(SubSeq(s, 1, Len(s) - 1), f)
             x      == s[Len(s)]
             before == Cardinality({i \in 1..Len(rest) : rest[i][f] >= x[f]})
         IN  SubSeq(rest, 1, before) \o << x >> \o SubSeq(rest, before + 1, Len(rest))

\* a tag, kept as its characters, as one string
RECURSIVE text(_)
text(chars) ==
    IF chars = << >> THEN "" ELSE Head(chars) \o text(Tail(chars))

\* Array.prototype.join on tags
RECURSIVE join(_, _)
join(tags, separator) ==
    IF tags = << >>
    THEN ""
    ELSE IF Len(tags) = 1
         THEN text(tags[1])
         ELSE text(tags[1]) \o separator \o join(Tail(tags), separator)

\* the bullet character of the explanation lines, by its escape
Bullet ==
    "\\u2022"

\* the return value for a user without events
noHistory(userId) ==
    [ userId             |-> userId,
      topCategories      |-> << >>,
      topBoostedTags     |-> << >>,
      rankingExplanation |-> "No interaction history found. Recommendations will be based solely on your profile preferences.",
      totalEvents        |-> 0 ]

\* the string built up in rankingExplanation
explain(topCategories, topBoostedTags, evs) ==
    "Based on your interaction history:\n"
    \o (IF Len(topCategories) > 0
        THEN "\n" \o Bullet \o " Products in \"" \o topCategories[1].category
             \o "\" category receive a +15 point boost\n"
             \o Bullet \o " You have shown interest in "
             \o ToString(Len(topCategories)) \o " different categories\n"
        ELSE "")
    \o (IF Len(topBoostedTags) > 0
        THEN Bullet \o " Products with tags like \""
             \o join(slice0(topBoostedTags, 3), "\", \"")
             \o "\" are prioritized\n"
        ELSE "")
    \o Bullet \o " Total of " \o ToString(Len(evs)) \o " interactions analyzed"

\* the part of getUserDiagnostics after both lookups
summarize(userId, evs, fetched) ==
    LET categories == categoryCount(evs, fetched, << >>)
        tags       == tagCount(evs, fetched, << >>)
        topCategories ==
            slice0(sortDescBy([i \in 1..Len(categories) |->
                                  [ category         |-> categories[i][1],
                                    interactionCount |-> categories[i][2] ]],
                              "interactionCount"),
                   TopCategoriesLimit)
        sortedTags == slice0(sortDescBy(tags, 2), TopBoostedTagsLimit)
        topBoostedTags == [i \in 1..Len(sortedTags) |-> sortedTags[i][1]]
    IN  [ userId             |-> userId,
          topCategories      |-> topCategories,
          topBoostedTags     |-> topBoostedTags,
          rankingExplanation |-> explain(topCategories, topBoostedTags, evs),
          totalEvents        |-> Len(evs) ]

IdleDiagnostics ==
    [ pc         |-> "idle",
      userId     |-> "",
      events     |-> << >>,
      productIds |-> << >>,
      result     |-> Null,
      error      |-> "",
      status     |-> 0 ]

\* the call: issues the history lookup
GetUserDiagnostics(userId) ==
    /\ diag.pc = "idle"
    /\ diag' = [diag EXCEPT !.pc = "events", !.userId = userId]
    /\ UNCHANGED << products, events, aiEnabled, callVars, scoreArgs, scoreOut,
                    http >>

\* the history lookup resolves: without events the call returns at once,
\* otherwise the product lookup is issued
EventsResolve ==
    /\ diag.pc = "events"
    /\ LET found == getUserEvents(diag.userId, DiagnosticsEventLimit)
       IN  IF Len(found) = 0
           THEN diag' = [diag EXCEPT !.pc = "resolved",
                                     !.result = noHistory(diag.userId)]
           ELSE diag' = [diag EXCEPT !.pc = "products",
                                     !.events = found,
                                     !.productIds = uniqueProductIds(found, << >>)]
    /\ UNCHANGED << products, events, aiEnabled, callVars, scoreArgs, scoreOut,
                    http >>

\* the history lookup rejects: the await rethrows
EventsReject ==
    /\ diag.pc = "events"
    /\ diag' = [diag EXCEPT !.pc = "rejected", !.error = "getUserEvents"]
    /\ UNCHANGED << products, events, aiEnabled, callVars, scoreArgs, scoreOut,
                    http >>

\* the product lookup resolves; the tallies, the sorts and the explanation
\* follow in the same turn
ProductsResolve ==
    /\ diag.pc = "products"
    /\ diag' = [diag EXCEPT !.pc = "resolved",
                            !.result = summarize(diag.userId, diag.events,
                                                 getProductsByIds(diag.productIds))]
    /\ UNCHANGED << products, events, aiEnabled, callVars, scoreArgs, scoreOut,
                    http >>

\* the product lookup rejects
ProductsReject ==
    /\ diag.pc = "products"
    /\ diag' = [diag EXCEPT !.pc = "rejected", !.error = "getProductsByIds"]
    /\ UNCHANGED << products, events, aiEnabled, callVars, scoreArgs, scoreOut,
                    http >>

\* the caller has the outcome; nothing of the call is kept
DiagnosticsRespond ==
    /\ diag.pc \in {"resolved", "rejected"}
    /\ diag' = IdleDiagnostics
    /\ UNCHANGED << products, events, aiEnabled, callVars, scoreArgs, scoreOut,
                    http >>

-----------------------------------------------------------------------------
(* The service *)

\* no request has reached the controller
NoRequests ==
    [c \in Calls |-> [body |-> Null, status |-> 0]]

IdleCalls ==
    /\ pc = [c \in Calls |-> "idle"]
    /\ params = [c \in Calls |-> Null]
    /\ limit = [c \in Calls |-> 0]
    /\ candidates = [c \in Calls |-> << >>]
    /\ groupByResult = [c \in Calls |-> << >>]
    /\ userTopCategory = [c \in Calls |-> Null]
    /\ topRecommendations = [c \in Calls |-> << >>]
    /\ aiPending = [c \in Calls |-> {}]
    /\ explanations = [c \in Calls |-> EmptyMap]
    /\ result = [c \in Calls |-> << >>]
    /\ error = [c \in Calls |-> ""]

Init ==
    /\ products \in Catalogs
    /\ events = << >>
    /\ aiEnabled \in BOOLEAN
    /\ IdleCalls
    /\ scoreArgs = Null
    /\ scoreOut = Null
    /\ diag = IdleDiagnostics
    /\ http = NoRequests

\* one ranking call at a time
Ranking(c) ==
    \/ \E p \in Requests, args \in LimitArgs : GetRecommendations(c, p, args)
    \/ CandidatesResolve(c)
    \/ CandidatesReject(c)
    \/ GroupByResolve(c)
    \/ TopCategoryResolve(c)
    \/ TopCategoryReject(c)
    \/ \E id \in aiPending[c], outcome \in {"text", "empty", "error"} :
          ExplanationSettle(c, id, outcome)
    \/ BatchResolve(c)
    \/ Respond(c)

Tracking ==
    \E e \in TrackInputs : TrackEvent(e[1], e[2], e[3])

Next ==
    \/ Ranking(1)
    \/ Tracking

Spec ==
    Init /\ [][Next]_vars

-----------------------------------------------------------------------------
(* The diagnostics route next to ranking and tracking, on one Product table *)

DiagnosticsUsers ==
    {"u1", "u2"}

Diagnostics ==
    \/ \E u \in DiagnosticsUsers : GetUserDiagnostics(u)
    \/ EventsResolve
    \/ EventsReject
    \/ ProductsResolve
    \/ ProductsReject
    \/ DiagnosticsRespond

\* the requests of the service test and of a user without budget
StoreRequests ==
    {p \in Requests : ~Has(p, "occasion")}

InitStore ==
    /\ products = {GamingKeyboard, GiftBasket, FreeSample}
    /\ events = << >>
    /\ aiEnabled \in BOOLEAN
    /\ IdleCalls
    /\ scoreArgs = Null
    /\ scoreOut = Null
    /\ diag = IdleDiagnostics
    /\ http = NoRequests

NextStore ==
    \/ \E p \in StoreRequests : GetRecommendations(1, p, << >>)
    \/ CandidatesResolve(1)
    \/ CandidatesReject(1)
    \/ GroupByResolve(1)
    \/ TopCategoryResolve(1)
    \/ TopCategoryReject(1)
    \/ \E id \in aiPending[1], outcome \in {"text", "empty", "error"} :
          ExplanationSettle(1, id, outcome)
    \/ BatchResolve(1)
    \/ Respond(1)
    \/ Tracking
    \/ Diagnostics

SpecStore ==
    InitStore /\ [][NextStore]_vars

-----------------------------------------------------------------------------
(* Diagnostics of recorded histories on the large Product table *)

visit(userId, productId) ==
    [userId |-> userId, productId |-> productId, eventType |-> "VIEW_PRODUCT"]

Prefixes(s) ==
    {SubSeq(s, 1, n) : n \in 0..Len(s)}

\* Event tables, oldest row first: every product once and then the oldest
\* ones again; one product three times before five others; two users
DiagnosticsHistories ==
    Prefixes(<< visit("u1", "p7"), visit("u1", "p6"), visit("u1", "p5"),
                visit("u1", "p4"), visit("u1", "p3"), visit("u1", "p8"),
                visit("u1", "p1"), visit("u1", "p1"), visit("u1", "p1"),
                visit("u1", "p8") >>)
    \cup Prefixes(<< visit("u1", "p7"), visit("u1", "p7"), visit("u1", "p7"),
                     visit("u1", "p1"), visit("u1", "p8"), visit("u1", "p3"),
                     visit("u1", "p5"), visit("u1", "p6") >>)
    \cup Prefixes(<< visit("u2", "p5"), visit("u1", "p6"), visit("u2", "p5"),
                     visit("u2", "p3"), visit("u1", "p4") >>)

InitDiagnostics ==
    /\ products = LargeCatalog
    /\ events \in DiagnosticsHistories
    /\ aiEnabled = FALSE
    /\ IdleCalls
    /\ scoreArgs = Null
    /\ scoreOut = Null
    /\ diag = IdleDiagnostics
    /\ http = NoRequests

NextDiagnostics ==
    Diagnostics

SpecDiagnostics ==
    InitDiagnostics /\ [][NextDiagnostics]_vars

-----------------------------------------------------------------------------
(* Ranking on recorded histories: the learned category of a user *)

\* Event tables, oldest row first.  u1 on two Food products and then on an
\* Electronics one and on the product without category; u2 only on the
\* product without category, then u1 twice on the same Electronics product
\* and once on a Food one; and a tie of two categories.
HistoryTables ==
    Prefixes(<< visit("u1", "p3"), visit("u1", "p4"), visit("u1", "p1"),
                visit("u1", "p5"), visit("u1", "p5"), visit("u1", "p5") >>)
    \cup Prefixes(<< visit("u2", "p5"), visit("u2", "p5"), visit("u1", "p1"),
                     visit("u1", "p1"), visit("u1", "p3") >>)
    \cup {<< visit("u1", "p1"), visit("u1", "p3") >>,
          << visit("u1", "p3"), visit("u1", "p1"), visit("u1", "p1"),
             visit("u1", "p1"), visit("u1", "p4") >>}

InitHistory ==
    /\ products = {GamingKeyboard, GiftBasket, GiftCard, FreeSample}
    /\ events \in HistoryTables
    /\ aiEnabled = FALSE
    /\ IdleCalls
    /\ scoreArgs = Null
    /\ scoreOut = Null
    /\ diag = IdleDiagnostics
    /\ http = NoRequests

NextHistory ==
    \/ \E p \in StoreRequests : GetRecommendations(1, p, << >>)
    \/ CandidatesResolve(1)
    \/ CandidatesReject(1)
    \/ GroupByResolve(1)
    \/ TopCategoryResolve(1)
    \/ TopCategoryReject(1)
    \/ Respond(1)
    \/ Tracking

SpecHistory ==
    InitHistory /\ [][NextHistory]_vars

-----------------------------------------------------------------------------
(* Ranking with the AI explanations enabled on the large Product table *)

\* a budget that admits all seven products, and one that admits six
BatchRequests ==
    { [ userId    |-> "u1",
        budget    |-> 200,
        interests |-> << <<"g", "a", "m", "i", "n", "g">>, <<"t", "e", "c", "h">> >> ],
      [ userId    |-> "u2",
        budget    |-> 100,
        interests |-> << <<"y", "o", "g", "a">> >> ] }

\* the default limit, the limit the controller passes, and smaller ones
BatchLimitArgs ==
    {<< >>, << 10 >>, << 6 >>, << 3 >>}

InitBatch ==
    /\ products = LargeCatalog
    /\ events \in {<< >>, << visit("u1", "p6") >>}
    /\ aiEnabled = TRUE
    /\ IdleCalls
    /\ scoreArgs = Null
    /\ scoreOut = Null
    /\ diag = IdleDiagnostics
    /\ http = NoRequests

NextBatch ==
    \/ \E p \in BatchRequests, args \in BatchLimitArgs : GetRecommendations(1, p, args)
    \/ CandidatesResolve(1)
    \/ CandidatesReject(1)
    \/ GroupByResolve(1)
    \/ TopCategoryResolve(1)
    \/ TopCategoryReject(1)
    \/ \E id \in aiPending[1], outcome \in {"text", "empty", "error"} :
          ExplanationSettle(1, id, outcome)
    \/ BatchResolve(1)
    \/ Respond(1)

SpecBatch ==
    InitBatch /\ [][NextBatch]_vars

\* The same, with the scheduling the code has: the continuation after
\* Promise.all runs once every request has settled. The generation service
\* answers every request but the one for the product p1, in any of the three
\* ways; the code sets no time limit on a request (new OpenAI({ apiKey }),
\* chat.completions.create without timeout or signal, no race against a
\* timer), so nothing ends a request that is not answered.
SpecBatchLive ==
    /\ InitBatch
    /\ [][NextBatch]_vars
    /\ \A id \in {x.id : x \in LargeCatalog} \ {"p1"} :
          WF_vars(\E outcome \in {"text", "empty", "error"} :
                     ExplanationSettle(1, id, outcome))
    /\ WF_vars(BatchResolve(1))

-----------------------------------------------------------------------------
(* Ranking on Product tables around the default limit and the candidate cap *)

\* the n-th product of a stock of look-alike products: two prices, every
\* fifth one tagged "gaming", created in the order of n
stock(n) ==
    [ id          |-> "s" \o ToString(n),
      title       |-> <<"I", "t", "e", "m">>,
      description |-> <<"S", "t", "o", "c", "k">>,
      price       |-> IF n % 2 = 0 THEN 90 ELSE 10,
      category    |-> "Stock",
      tags        |-> IF n % 5 = 0
                      THEN << <<"g", "a", "m", "i", "n", "g">> >>
                      ELSE << >>,
      createdAt   |-> n ]

\* table sizes below, at and above 10, 20 and 100
StockSizes ==
    {9, 10, 11, 19, 20, 21, 99, 100, 101, 102}

\* a budget that admits every product and one that admits the cheap half
StockRequests ==
    { [ userId    |-> "u1",
        budget    |-> 100,
        interests |-> << <<"g", "a", "m", "i", "n", "g">> >> ],
      [ userId    |-> "u1",
        budget    |-> 20,
        interests |-> << <<"g", "a", "m", "i", "n", "g">> >> ] }

\* no limit, the controller's limit, and a limit above the candidate cap
StockLimitArgs ==
    {<< >>, << 10 >>, << 150 >>}

InitStock ==
    /\ products \in {{stock(n) : n \in 1..size} : size \in StockSizes}
    /\ events \in {<< >>, << visit("u1", stock(5).id) >>}
    /\ aiEnabled = FALSE
    /\ IdleCalls
    /\ scoreArgs = Null
    /\ scoreOut = Null
    /\ diag = IdleDiagnostics
    /\ http = NoRequests

NextStock ==
    \/ \E p \in StockRequests, args \in StockLimitArgs : GetRecommendations(1, p, args)
    \/ CandidatesResolve(1)
    \/ CandidatesReject(1)
    \/ GroupByResolve(1)
    \/ TopCategoryResolve(1)
    \/ TopCategoryReject(1)
    \/ Respond(1)

SpecStock ==
    InitStock /\ [][NextStock]_vars

-----------------------------------------------------------------------------
(* Two ranking calls in flight at once, on an unchanged Product and Event   *)
(* table                                                                    *)

\* requests of two users with different budgets
ConcurrentRequests ==
    { [ userId    |-> "u1",
        budget    |-> 100,
        interests |-> << <<"g", "a", "m", "i", "n", "g">>, <<"t", "e", "c", "h">> >> ],
      [ userId    |-> "u2",
        budget    |-> 20,
        interests |-> << <<"g", "i", "f", "t">> >> ] }

\* no history, a history with one top category, and one with a tie
ConcurrentHistories ==
    { << >>,
      << visit("u1", "p4") >>,
      << visit("u1", "p1"), visit("u2", "p4"), visit("u1", "p3") >> }

InitConcurrent ==
    /\ products = {GamingKeyboard, GiftBasket, GiftCard}
    /\ events \in ConcurrentHistories
    /\ aiEnabled = TRUE
    /\ IdleCalls
    /\ scoreArgs = Null
    /\ scoreOut = Null
    /\ diag = IdleDiagnostics
    /\ http = NoRequests

NextConcurrent ==
    \E c \in Calls :
        \/ \E p \in ConcurrentRequests : GetRecommendations(c, p, << >>)
        \/ CandidatesResolve(c)
        \/ CandidatesReject(c)
        \/ GroupByResolve(c)
        \/ TopCategoryResolve(c)
        \/ TopCategoryReject(c)
        \/ \E id \in aiPending[c], outcome \in {"text", "empty", "error"} :
              ExplanationSettle(c, id, outcome)
        \/ BatchResolve(c)
        \/ Respond(c)

SpecConcurrent ==
    InitConcurrent /\ [][NextConcurrent]_vars

-----------------------------------------------------------------------------
(* RecommendationController *)

HexDigits ==
    {"0", "1", "2", "3", "4", "5", "6", "7", "8", "9",
     "a", "b", "c", "d", "e", "f", "A", "B", "C", "D", "E", "F"}

\* z.string().uuid(): 8-4-4-4-12 hexadecimal digits
isUuid(s) ==
    /\ Len(s) = 36
    /\ \A i \in 1..36 :
          IF i \in {9, 14, 19, 24} THEN s[i] = "-" ELSE s[i] \in HexDigits

\* the relationship member of recommendationRequestSchema: z.enum([...])
relationshipEnum ==
    {"friend", "partner", "parent", "sibling", "colleague", "child", "other"}

\* the schema before recipientAge and relationship were added to it: the
\* two keys are not checked
issues_legacy(body) ==
    {k \in {"userId", "budget", "interests", "age"} :
        \/ k = "userId" /\ ~isUuid(body.userId)
        \/ k = "budget" /\ body.budget < 0
        \/ k = "interests" /\ Len(body.interests) < 1
        \/ k = "age" /\ Has(body, "age") /\ (body.age < 0 \/ body.age > 120)}

\* recommendationRequestSchema.safeParse on a body that is an object with
\* values of the right types: the failed checks, by key
issues(body) ==
    {k \in {"userId", "budget", "interests", "recipientAge", "age",
            "relationship"} :
        \/ k = "userId" /\ ~isUuid(body.userId)
        \/ k = "budget" /\ body.budget < 0
        \/ k = "interests" /\ Len(body.interests) < 1
        \/ k = "recipientAge" /\ Has(body, "recipientAge")
              /\ (body.recipientAge < 0 \/ body.recipientAge > 120)
        \/ k = "age" /\ Has(body, "age") /\ (body.age < 0 \/ body.age > 120)
        \/ k = "relationship" /\ Has(body, "relationship")
              /\ body.relationship \notin relationshipEnum}

\* validationResult.data: the keys of the schema, the others stripped
parsed(body) ==
    [k \in DOMAIN body \cap {"userId", "budget", "interests", "recipientAge",
                             "age", "occasion", "relationship"}
        |-> body[k]]

\* normalizedParams, without the keys whose value is undefined
normalizedParams(data) ==
    [k \in {"userId", "budget", "interests"} |-> data[k]]
    @@ (IF Has(data, "recipientAge") THEN [recipientAge |-> data.recipientAge]
        ELSE IF Has(data, "age") THEN [recipientAge |-> data.age]
        ELSE EmptyMap)
    @@ (IF Has(data, "occasion") THEN [occasion |-> data.occasion] ELSE EmptyMap)
    @@ (IF Has(data, "relationship") THEN [relationship |-> data.relationship]
        ELSE EmptyMap)

\* the limit argument the controller passes
ControllerLimit ==
    10

\* POST /recommendations: a body that fails the schema is answered with 400
\* at once, any other goes to the service
PostRecommendations(c, body) ==
    /\ pc[c] = "idle"
    /\ IF issues(body) # {}
       THEN /\ http' = [http EXCEPT ![c] = [body |-> body, status |-> 400]]
            /\ UNCHANGED callVars
       ELSE /\ http' = [http EXCEPT ![c] = [body |-> body, status |-> 0]]
            /\ pc' = [pc EXCEPT ![c] = "candidates"]
            /\ params' = [params EXCEPT ![c] = normalizedParams(parsed(body))]
            /\ limit' = [limit EXCEPT ![c] = ControllerLimit]
            /\ UNCHANGED << candidates, userTopCategory, topRecommendations,
                            aiPending, explanations, result, error, groupByResult >>
    /\ UNCHANGED << products, events, aiEnabled, scoreArgs, scoreOut, diag >>

\* res.json with the list, or next(error) and the error handler's answer
SendResult(c) ==
    /\ pc[c] \in {"resolved", "rejected"}
    /\ http[c].body # Null
    /\ http' = [http EXCEPT ![c].status = IF pc[c] = "resolved" THEN 200 ELSE 500]
    /\ pc' = [pc EXCEPT ![c] = "idle"]
    /\ params' = [params EXCEPT ![c] = Null]
    /\ limit' = [limit EXCEPT ![c] = 0]
    /\ candidates' = [candidates EXCEPT ![c] = << >>]
    /\ groupByResult' = [groupByResult EXCEPT ![c] = << >>]
    /\ userTopCategory' = [userTopCategory EXCEPT ![c] = Null]
    /\ topRecommendations' = [topRecommendations EXCEPT ![c] = << >>]
    /\ aiPending' = [aiPending EXCEPT ![c] = {}]
    /\ explanations' = [explanations EXCEPT ![c] = EmptyMap]
    /\ result' = [result EXCEPT ![c] = << >>]
    /\ error' = [error EXCEPT ![c] = ""]
    /\ UNCHANGED << products, events, aiEnabled, scoreArgs, scoreOut, diag >>

\* diagnosticsQuerySchema.safeParse(req.query) succeeds
validQuery(query) ==
    Has(query, "userId") /\ isUuid(query.userId)

\* GET /recommendations/diagnostics: a query that fails the schema is
\* answered with 400 at once and the service is not called, any other goes
\* to getUserDiagnostics
GetDiagnostics(query) ==
    /\ diag.pc = "idle"
    /\ IF validQuery(query)
       THEN diag' = [IdleDiagnostics EXCEPT !.pc = "events",
                                            !.userId = query.userId]
       ELSE diag' = [IdleDiagnostics EXCEPT !.status = 400]
    /\ UNCHANGED << products, events, aiEnabled, callVars, scoreArgs, scoreOut,
                    http >>

\* res.json with the summary, or next(error) and the error handler's answer
SendDiagnostics ==
    /\ diag.pc \in {"resolved", "rejected"}
    /\ diag' = [IdleDiagnostics EXCEPT
                   !.status = IF diag.pc = "resolved" THEN 200 ELSE 500]
    /\ UNCHANGED << products, events, aiEnabled, callVars, scoreArgs, scoreOut,
                    http >>

\* a user id in UUID form
UserA ==
    <<"3", "f", "2", "a", "8", "c", "1", "e", "-", "9", "b", "4", "d", "-", "4", "e", "6", "f", "-", "8", "a", "7", "b", "-", "1", "c", "2", "d", "3", "e", "4", "f", "5", "a", "6", "b">>

\* request bodies: well-formed ones, and one for each way of being ill-formed
Bodies ==
    LET ok == [ userId    |-> UserA,
                budget    |-> 100,
                interests |-> << <<"g", "a", "m", "i", "n", "g">> >> ]
    IN  { ok,
          [age |-> 30] @@ [occasion |-> <<"b", "i", "r", "t", "h", "d", "a", "y">>] @@ ok,
          [age |-> 0] @@ [ok EXCEPT !.budget = 0],
          [age |-> 120] @@ ok,
          [relationship |-> "friend"] @@ ok,
          [recipientAge |-> 40] @@ [age |-> 30] @@ ok,
          [recipientAge |-> 121] @@ ok,
          [campaign |-> "spring"] @@ ok,
          [ok EXCEPT !.userId = <<"n", "o", "t", "-", "a", "-", "u", "u", "i", "d">>],
          [ok EXCEPT !.userId = <<"3", "f", "2", "a", "8", "c", "1", "e", "-", "9", "b", "4", "d", "-", "4", "e", "6", "f", "-", "8", "a", "7", "b", "-", "1", "c", "2", "d", "3", "e", "4", "f", "5", "a", "6", "g">>],
          [ok EXCEPT !.budget = -1],
          [ok EXCEPT !.interests = << >>],
          [age |-> 121] @@ ok,
          [age |-> -1] @@ ok,
          [relationship |-> "boss"] @@ ok }

\* queries of the diagnostics route: a user id in UUID form, the short
\* names the service is called with elsewhere, and no user id
Queries ==
    { [userId |-> UserA],
      [userId |-> <<"u", "1">>],
      [userId |-> <<"u", "2">>],
      EmptyMap }

InitController ==
    /\ products = {GamingKeyboard, GiftBasket, FreeSample}
    /\ events \in {<< >>, << visit(UserA, "p1") >>}
    /\ aiEnabled \in BOOLEAN
    /\ IdleCalls
    /\ scoreArgs = Null
    /\ scoreOut = Null
    /\ diag = IdleDiagnostics
    /\ http = NoRequests

NextController ==
    \/ \E body \in Bodies : PostRecommendations(1, body)
    \/ CandidatesResolve(1)
    \/ CandidatesReject(1)
    \/ GroupByResolve(1)
    \/ TopCategoryResolve(1)
    \/ TopCategoryReject(1)
    \/ \E id \in aiPending[1], outcome \in {"text", "empty", "error"} :
          ExplanationSettle(1, id, outcome)
    \/ BatchResolve(1)
    \/ SendResult(1)
    \/ \E query \in Queries : GetDiagnostics(query)
    \/ EventsResolve
    \/ EventsReject
    \/ ProductsResolve
    \/ ProductsReject
    \/ SendDiagnostics

SpecController ==
    InitController /\ [][NextController]_vars

-----------------------------------------------------------------------------
(* calculateScore applied directly to drawn arguments *)

ScoreBudgets ==
    {0, 23, 29, 79, 80, 100}

ScoreInterests ==
    { << >>,
      << <<"g", "a", "m", "i", "n", "g">>, <<"t", "e", "c", "h">> >>,
      << <<"T", "E", "C", "H">>,
         <<"t", "e", "c", "h", "n", "o", "l", "o", "g", "y">> >>,
      << <<"g", "a", "m">>,
         <<"C", "o", "m", "p", "u", "t", "e", "r", "s">> >>,
      << << >> >> }

ScoreOccasions ==
    { << >>,
      <<"b", "i", "r", "t", "h", "d", "a", "y">>,
      <<"B", "I", "R", "T", "H", "D", "A", "Y">>,
      <<"h", "o", "u", "s", "e", "w", "a", "r", "m", "i", "n", "g">>,
      <<"C", "a", "r", "d">>,
      <<"c", "o", "n", "s", "t", "r", "u", "c", "t", "o", "r">> }

ScoreRelationships ==
    {"friend", "partner", "other"}

ScoreTopCategories ==
    {Undefined, << "Electronics" >>, << "Food" >>, << "food" >>}

\* params objects with and without the optional fields
ScoreParams ==
    LET base == { [userId |-> "u1", budget |-> b, interests |-> is] :
                    b \in ScoreBudgets, is \in ScoreInterests }
        withOccasion == { [occasion |-> o] @@ p : o \in ScoreOccasions, p \in base }
        withRelationship ==
            { [relationship |-> r] @@ p :
                r \in ScoreRelationships, p \in base \cup withOccasion }
    IN  base \cup withOccasion \cup withRelationship

InitScore ==
    /\ products = {}
    /\ events = << >>
    /\ aiEnabled = FALSE
    /\ IdleCalls
    /\ scoreArgs \in [ product     : Pool,
                       params      : ScoreParams,
                       topCategory : ScoreTopCategories ]
    /\ scoreOut = Null
    /\ diag = IdleDiagnostics
    /\ http = NoRequests

ApplyCalculateScore ==
    /\ scoreOut = Null
    /\ scoreArgs # Null
    /\ scoreOut' = calculateScore(scoreArgs.product, scoreArgs.params,
                                  scoreArgs.topCategory)
    /\ UNCHANGED << products, events, aiEnabled, callVars, scoreArgs, diag, http >>

NextScore ==
    ApplyCalculateScore

SpecScore ==
    InitScore /\ [][NextScore]_vars

-----------------------------------------------------------------------------
(* Properties *)

\* t occurs in s when letter case is ignored
ContainsCI(s, t) ==
    \E off \in 0..(Len(s) - Len(t)) :
        \A k \in 1..Len(t) : LowerChar(s[off + k]) = LowerChar(t[k])

\* the calls that have returned a list
Returned ==
    {c \in Calls : pc[c] = "resolved"}

\* the calls whose catalog lookup has resolved with candidates
Scoring ==
    {c \in Calls : pc[c] \in {"topCategory", "topCategoryProducts", "explanations",
                     "resolved"}
                   /\ candidates[c] # << >>}

\* a direct application of calculateScore has returned a breakdown
Scored ==
    scoreOut # Null /\ ~Has(scoreOut, "throws")

\* C1: no returned item is priced above budget x 1.15, and a catalog item
\* priced at exactly budget x 1.15 is among the candidates of the call.
C1_HardFilterCeiling ==
    \A c \in Calls :
        /\ c \in Returned =>
              \A i \in 1..Len(result[c]) :
                  result[c][i].price * 100 <= params[c].budget * 115
        /\ pc[c] \in {"topCategory", "topCategoryProducts", "explanations",
                     "resolved"} =>
              \A x \in products :
                  x.price * 100 = params[c].budget * 115 =>
                      \E i \in 1..Len(candidates[c]) : candidates[c][i].id = x.id

\* C2: every returned item has the five components interestMatch,
\* budgetOptimization, occasionMatch, relationshipMatch and learningBoost,
\* each a non-negative integer, and its score is their sum.
C2_TotalIsSumOfFive ==
    \A c \in Returned : \A i \in 1..Len(result[c]) :
        LET b == result[c][i].scoreBreakdown
        IN  /\ \A f \in {"interestMatch", "budgetOptimization", "occasionMatch",
                         "relationshipMatch", "learningBoost"} :
                   Has(b, f) /\ b[f] \in Nat
            /\ result[c][i].score =
                   b.interestMatch + b.budgetOptimization + b.occasionMatch
                   + b.relationshipMatch + b.learningBoost

\* C3: the returned list is in descending order of score: the score at each
\* position is at least the score at the next.
C3_SortedDescending ==
    \A c \in Returned : \A i \in 1..(Len(result[c]) - 1) :
        result[c][i].score >= result[c][i + 1].score

\* a list was returned in which the sort moved a later candidate ahead of an
\* earlier one with a lower score
C3_Witness ==
    \E c \in Returned : \E i, j \in 1..Len(result[c]) :
        /\ i < j
        /\ result[c][i].score > result[c][j].score
        /\ \E k, m \in 1..Len(candidates[c]) :
              /\ k > m
              /\ candidates[c][k].id = result[c][i].id
              /\ candidates[c][m].id = result[c][j].id

\* the total calculateScore gives a candidate in a call
totalOf(x, c) ==
    LET b == calculateScore(x, params[c], categoryArg(userTopCategory[c]))
    IN  b.interestMatch + b.budgetOptimization + b.occasionMatch + b.learningBoost

\* C4: a call returns min(limit, number of candidates) items, each a
\* different candidate, and no candidate left out scores strictly higher than
\* a returned one; with no candidates it returns the empty list and raises
\* nothing.
C4_TopByScore ==
    \A c \in Calls :
        /\ c \in Returned =>
              /\ Len(result[c]) = Min(limit[c], Len(candidates[c]))
              /\ \A i, j \in 1..Len(result[c]) :
                    i # j => result[c][i].id # result[c][j].id
              /\ \A i \in 1..Len(result[c]) :
                    \E k \in 1..Len(candidates[c]) :
                        candidates[c][k] =
                            [f \in DOMAIN candidates[c][k] |-> result[c][i][f]]
              /\ \A k \in 1..Len(candidates[c]) :
                    (\A i \in 1..Len(result[c]) :
                        result[c][i].id # candidates[c][k].id)
                    => \A i \in 1..Len(result[c]) :
                          totalOf(candidates[c][k], c) <= result[c][i].score
        /\ (pc[c] = "rejected" /\ error[c] # "getRecommendationCandidates")
              => candidates[c] # << >>
        /\ pc[c] \in {"topCategory", "topCategoryProducts", "explanations"}
              => candidates[c] # << >>

\* a call returned fewer items than it had candidates
C4_Witness ==
    \E c \in Returned :
        /\ Len(result[c]) = limit[c]
        /\ Len(candidates[c]) > limit[c]
        /\ \E k \in 1..Len(candidates[c]) :
              totalOf(candidates[c][k], c) < result[c][Len(result[c])].score

\* C5: budgetOptimization is 5 when the price is from 80% to 100% of the
\* budget, both ends included, and 0 otherwise; with budget 0 it is 0 for
\* every price, and the zero budget makes no scoring fail that returns a
\* breakdown with another budget.
C5_BudgetOptimization ==
    scoreOut # Null =>
        LET price  == scoreArgs.product.price
            budget == scoreArgs.params.budget
        IN  /\ Scored =>
                  scoreOut.budgetOptimization =
                      IF /\ budget # 0
                         /\ 80 * budget <= 100 * price
                         /\ 100 * price <= 100 * budget
                      THEN 5 ELSE 0
            /\ (budget = 0 /\ ~Scored) =>
                  Has(calculateScore(scoreArgs.product,
                                     [scoreArgs.params EXCEPT !.budget = 100],
                                     scoreArgs.topCategory), "throws")

\* budgetOptimization was awarded at exactly 80% of the budget
C5_Witness ==
    /\ Scored
    /\ scoreOut.budgetOptimization = 5
    /\ 100 * scoreArgs.product.price = 80 * scoreArgs.params.budget

\* C6: learningBoost of a returned item is 15 when a learned category was
\* resolved for the user and is the item's category, and 0 otherwise; it is
\* 0 for every item when the user has no events.
C6_LearningBoost ==
    \A c \in Returned : \A i \in 1..Len(result[c]) :
        /\ result[c][i].scoreBreakdown.learningBoost =
              IF /\ userTopCategory[c] # Null
                 /\ result[c][i].category = userTopCategory[c].category
              THEN 15 ELSE 0
        /\ (\A n \in 1..Len(events) : events[n].userId # params[c].userId)
              => result[c][i].scoreBreakdown.learningBoost = 0

\* a returned list has an item with the boost and an item of another
\* category without it
C6_Witness ==
    \E c \in Returned : \E i, j \in 1..Len(result[c]) :
        /\ result[c][i].scoreBreakdown.learningBoost = 15
        /\ result[c][j].scoreBreakdown.learningBoost = 0
        /\ result[c][j].category # result[c][i].category

\* C7: interestMatch is 10 times the number of tag occurrences for which
\* some interest contains the tag or is contained in it, letter case
\* ignored; each occurrence counts once, so it is at most 10 per tag.
C7_InterestMatch ==
    Scored =>
        LET tags      == scoreArgs.product.tags
            interests == scoreArgs.params.interests
            matching  == {i \in 1..Len(tags) :
                            \E j \in 1..Len(interests) :
                                \/ ContainsCI(tags[i], interests[j])
                                \/ ContainsCI(interests[j], tags[i])}
        IN  /\ scoreOut.interestMatch = 10 * Cardinality(matching)
            /\ scoreOut.interestMatch <= 10 * Len(tags)

\* two tags each matched both interests, one by containing it and one by
\* being contained, and each was counted once
C7_Witness ==
    /\ Scored
    /\ scoreArgs.product.id = "p4"
    /\ scoreArgs.params.interests =
          << <<"T", "E", "C", "H">>,
             <<"t", "e", "c", "h", "n", "o", "l", "o", "g", "y">> >>
    /\ scoreOut.interestMatch = 20

\* an occasion is given when the field is present and not the empty string
OccasionGiven(p) ==
    Has(p, "occasion") /\ p.occasion # << >>

\* the keyword set of an occasion: its table entry, else itself lower-cased
KeywordSet(occasion) ==
    LET key == toLowerCase(occasion)
    IN  IF \E e \in occasionMap : e[1] = key
        THEN LET words == (CHOOSE e \in occasionMap : e[1] = key)[2]
             IN  {words[k] : k \in 1..Len(words)}
        ELSE {key}

\* C8: with an occasion given, occasionMatch is 5 exactly when a keyword of
\* the occasion's keyword set occurs in the title or in the description,
\* letter case ignored; otherwise, and without an occasion, it is 0.
C8_OccasionMatch ==
    Scored =>
        scoreOut.occasionMatch =
            IF /\ OccasionGiven(scoreArgs.params)
               /\ \E kw \in KeywordSet(scoreArgs.params.occasion) :
                     \/ ContainsCI(scoreArgs.product.title, kw)
                     \/ ContainsCI(scoreArgs.product.description, kw)
            THEN 5 ELSE 0

\* occasionMatch was awarded for a table keyword other than the occasion's
\* own name
C8_Witness ==
    /\ Scored
    /\ scoreOut.occasionMatch = 5
    /\ OccasionGiven(scoreArgs.params)
    /\ ~ContainsCI(scoreArgs.product.title, scoreArgs.params.occasion)
    /\ ~ContainsCI(scoreArgs.product.description, scoreArgs.params.occasion)

\* C9: with a relationship in the request, the breakdown has a
\* relationshipMatch component, 5 exactly when the item's category is in
\* the category set of the relationship and 0 otherwise.
C9_RelationshipMatch ==
    (Scored /\ Has(scoreArgs.params, "relationship")) =>
        LET categories ==
                CASE scoreArgs.params.relationship = "friend" ->
                        {"Electronics", "Toys", "Books", "Food", "Sports"}
                  [] scoreArgs.params.relationship = "partner" ->
                        {"Jewelry", "Beauty", "Home", "Fashion", "Food"}
                  [] scoreArgs.params.relationship = "parent" ->
                        {"Home", "Garden", "Books", "Food", "Beauty"}
                  [] scoreArgs.params.relationship = "sibling" ->
                        {"Electronics", "Toys", "Fashion", "Books", "Sports"}
                  [] scoreArgs.params.relationship = "colleague" ->
                        {"Office", "Food", "Books", "Home"}
                  [] scoreArgs.params.relationship = "child" ->
                        {"Toys", "Books", "Electronics", "Art", "Sports"}
                  [] scoreArgs.params.relationship = "other" -> {}
        IN  /\ Has(scoreOut, "relationshipMatch")
            /\ scoreOut.relationshipMatch =
                  IF scoreArgs.product.category \in categories THEN 5 ELSE 0

\* C10: every returned item carries a reason: the generic sentence exactly
\* when all components are 0, and otherwise one clause for each component
\* above 0 and none for a component that is 0.
C10_Reason ==
    \A c \in Returned : \A i \in 1..Len(result[c]) :
        LET it      == result[c][i]
            b       == it.scoreBreakdown
            generic == <<" ", "i", "s", " ", "a", " ", "p", "o", "p", "u", "l", "a", "r", " ", "c", "h", "o", "i", "c", "e", " ", "i", "n", " ", "t", "h", "e", " ">>
            because == <<" ", "i", "s", " ", "r", "e", "c", "o", "m", "m", "e", "n", "d", "e", "d", " ", "b", "e", "c", "a", "u", "s", "e", " ", "i", "t", " ">>
            value   == <<"g", "r", "e", "a", "t", " ", "v", "a", "l", "u", "e", " ", "w", "i", "t", "h", "i", "n", " ", "b", "u", "d", "g", "e", "t">>
            perfect == <<"p", "e", "r", "f", "e", "c", "t", " ", "f", "o", "r", " ">>
            matches == <<"m", "a", "t", "c", "h", "e", "s", " ", "i", "n", "t", "e", "r", "e", "s", "t", "s">>
            ideal   == <<"i", "d", "e", "a", "l", " ", "g", "i", "f", "t", " ", "f", "o", "r", " ", "a", " ">>
            learned == <<"b", "a", "s", "e", "d", " ", "o", "n", " ", "y", "o", "u", "r", " ", "p", "r", "e", "v", "i", "o", "u", "s", " ", "p", "r", "e", "f", "e", "r", "e", "n", "c", "e", "s">>
        IN  /\ Has(it, "reason")
            /\ includes(it.reason, it.title \o generic) <=> it.score = 0
            /\ includes(it.reason, it.title \o because) <=> it.score > 0
            /\ includes(it.reason, matches) <=> b.interestMatch > 0
            /\ includes(it.reason, value) <=> b.budgetOptimization > 0
            /\ includes(it.reason, perfect) <=> b.occasionMatch > 0
            /\ includes(it.reason, ideal) <=> b.relationshipMatch > 0
            /\ includes(it.reason, learned) <=> b.learningBoost > 0

\* C11: a request with budget 0 makes getRecommendations return the empty
\* list without error, whatever the Product table holds: such a call never
\* goes on to score candidates, and the list it resolves with is empty.
C11_ZeroBudgetEmpty ==
    \A c \in Calls :
        (pc[c] # "idle" /\ params[c].budget = 0) =>
            /\ candidates[c] = << >>
            /\ pc[c] \in {"candidates", "resolved", "rejected"}
            /\ pc[c] = "resolved" => result[c] = << >>
            /\ pc[c] = "rejected" => error[c] = "getRecommendationCandidates"

\* the list steps 1 to 4 alone produce from what the call has looked up
deterministicRanking(c) ==
    scoreAndRank(candidates[c], params[c], limit[c],
                 categoryArg(userTopCategory[c])).list

\* C12: without a configured text generation no generation request is
\* issued, no item of the result has the aiExplanation field, and the
\* result is the scored, sorted and sliced list itself: same items, same
\* order, same scores and breakdowns.
C12_DisabledAIFrame ==
    ~aiEnabled =>
        \A c \in Calls :
            /\ pc[c] # "explanations"
            /\ aiPending[c] = {}
            /\ explanations[c] = EmptyMap
            /\ (pc[c] = "resolved" /\ candidates[c] # << >>) =>
                  /\ result[c] = deterministicRanking(c)
                  /\ \A i \in 1..Len(result[c]) :
                        ~Has(result[c][i], "aiExplanation")

\* a list of two products returned with the generation not configured
C12_Witness ==
    /\ ~aiEnabled
    /\ pc[1] = "resolved"
    /\ Len(result[1]) >= 2
    /\ result[1] = deterministicRanking(1)

\* C13: a generation request that fails takes nothing from the call but its
\* own text.  While the batch is awaited the call cannot fail, a request
\* that settles leaves the texts already received in place, and the list
\* the call resolves with is the whole ranked list, each item carrying the
\* text received for it, or null when its request brought none.
C13_FailureIsolated ==
    [][\A c \in Calls :
          pc[c] = "explanations" =>
            /\ pc'[c] \in {"explanations", "resolved"}
            /\ error'[c] = ""
            /\ topRecommendations'[c] = topRecommendations[c]
            /\ \A id \in DOMAIN explanations[c] :
                  /\ id \in DOMAIN explanations'[c]
                  /\ explanations'[c][id] = explanations[c][id]
            /\ Cardinality(aiPending[c] \ aiPending'[c]) <= 1
            /\ DOMAIN explanations'[c] \subseteq
                  DOMAIN explanations[c] \cup (aiPending[c] \ aiPending'[c])
            /\ pc'[c] = "resolved" =>
                  /\ Len(result'[c]) = Len(topRecommendations[c])
                  /\ \A i \in 1..Len(result'[c]) :
                        LET item == topRecommendations[c][i]
                        IN  /\ result'[c][i] =
                                  [aiExplanation |-> result'[c][i].aiExplanation] @@ item
                            /\ result'[c][i].aiExplanation =
                                  IF item.id \in DOMAIN explanations[c]
                                  THEN GeneratedText(c, item.id)
                                  ELSE Null
      ]_vars

\* all seven products returned; among the first five one without text, whose
\* request failed or came back empty, and one with its text
C13_Witness ==
    /\ pc[1] = "resolved"
    /\ Len(result[1]) = 7
    /\ \E i, j \in 1..5 :
          /\ Has(result[1][i], "aiExplanation")
          /\ result[1][i].aiExplanation = Null
          /\ result[1][j].aiExplanation = GeneratedText(1, result[1][j].id)

\* the ids of the first five items of a list
firstFiveIds(list) ==
    {list[i].id : i \in 1..Min(5, Len(list))}

\* C14: generation requests are issued in one step only, the one that has
\* sorted and sliced the list, and for the first five items of that list
\* only; no request is issued again later in the call, so there are at most
\* five per call whatever the limit is, and an item at position 6 or later
\* never carries a text.
C14_AtMostFiveRequests ==
    [][\A c \in Calls :
          /\ ~(aiPending'[c] \subseteq aiPending[c]) =>
                /\ pc[c] \in {"topCategory", "topCategoryProducts"}
                /\ pc'[c] = "explanations"
                /\ aiPending[c] = {}
                /\ Len(topRecommendations'[c]) <= limit[c]
                /\ \A i, j \in 1..Len(topRecommendations'[c]) :
                      i < j => topRecommendations'[c][i].score
                                   >= topRecommendations'[c][j].score
                /\ aiPending'[c] = firstFiveIds(topRecommendations'[c])
                /\ Cardinality(aiPending'[c]) <= 5
          /\ DOMAIN explanations'[c] \subseteq firstFiveIds(topRecommendations'[c])
          /\ pc'[c] = "resolved" =>
                \A i \in 6..Len(result'[c]) :
                    Has(result'[c][i], "aiExplanation") =>
                        result'[c][i].aiExplanation = Null
      ]_vars

\* seven products returned under the default limit: the first five with
\* their texts, the sixth and seventh without
C14_Witness ==
    /\ pc[1] = "resolved"
    /\ limit[1] = DefaultLimit
    /\ Len(result[1]) = 7
    /\ \A i \in 1..5 :
          result[1][i].aiExplanation = GeneratedText(1, result[1][i].id)
    /\ \A i \in 6..7 : result[1][i].aiExplanation = Null

\* C15: a catalog or history lookup that fails makes the ranking or
\* diagnostics call fail with the error of that lookup.  Every way out of
\* an awaited lookup is either the rejected call, holding the lookup's
\* error and no result, or the continuation on the value the lookup really
\* yields; no step puts a fallback value in its place, and the error stays
\* as it is until the caller has it.
C15_LookupFailurePropagates ==
    [][/\ \A c \in Calls :
            /\ (pc[c] = "candidates" /\ pc'[c] # "candidates") =>
                  \/ /\ pc'[c] = "rejected"
                     /\ error'[c] = "getRecommendationCandidates"
                     /\ result'[c] = << >>
                     /\ candidates'[c] = << >>
                  \/ /\ error'[c] = ""
                     /\ candidates'[c] =
                           getRecommendationCandidates(times1_15(params[c].budget),
                                                       CandidateLimit)
                     /\ pc'[c] = IF candidates'[c] = << >>
                                 THEN "resolved" ELSE "topCategory"
            /\ (pc[c] \in {"topCategory", "topCategoryProducts"} /\ pc'[c] # pc[c]) =>
                  \/ /\ pc'[c] = "rejected"
                     /\ error'[c] = "getUserTopCategory"
                     /\ result'[c] = << >>
                     /\ topRecommendations'[c] = << >>
                  \/ /\ pc[c] = "topCategory"
                     /\ pc'[c] = "topCategoryProducts"
                     /\ error'[c] = ""
                     /\ groupByResult'[c] # << >>
                     /\ groupByResult'[c]
                           \in RowOrders(groupByProductId(params[c].userId))
                  \/ /\ userTopCategory'[c] =
                           IF pc[c] = "topCategory"
                           THEN Null
                           ELSE topCategoryFor(groupByResult[c])
                     /\ pc[c] = "topCategory" =>
                           groupByProductId(params[c].userId) = {}
                     /\ LET ranked == scoreAndRank(candidates[c], params[c], limit[c],
                                                   categoryArg(userTopCategory'[c]))
                        IN  IF Has(ranked, "throws")
                            THEN /\ pc'[c] = "rejected"
                                 /\ error'[c] = ranked.throws
                                 /\ result'[c] = << >>
                            ELSE /\ pc'[c] \in {"explanations", "resolved"}
                                 /\ error'[c] = ""
                                 /\ topRecommendations'[c] = ranked.list
            /\ pc[c] = "rejected" =>
                  \/ pc'[c] = "idle"
                  \/ /\ pc'[c] = "rejected"
                     /\ error'[c] = error[c]
                     /\ result'[c] = << >>
       /\ (diag.pc = "events" /\ diag'.pc # "events") =>
             \/ /\ diag'.pc = "rejected"
                /\ diag'.error = "getUserEvents"
                /\ diag'.result = Null
             \/ LET found == getUserEvents(diag.userId, DiagnosticsEventLimit)
                IN  /\ diag'.error = ""
                    /\ IF found = << >>
                       THEN diag'.pc = "resolved"
                       ELSE diag'.pc = "products" /\ diag'.events = found
       /\ (diag.pc = "products" /\ diag'.pc # "products") =>
             \/ /\ diag'.pc = "rejected"
                /\ diag'.error = "getProductsByIds"
                /\ diag'.result = Null
             \/ /\ diag'.pc = "resolved"
                /\ diag'.error = ""
                /\ diag'.result =
                      summarize(diag.userId, diag.events,
                                getProductsByIds(uniqueProductIds(diag.events, << >>)))
       /\ diag.pc = "rejected" =>
             \/ diag'.pc = "idle"
             \/ diag' = diag
      ]_vars

\* a ranking call failed on its history lookup and a diagnostics call failed
\* on its product lookup, both with candidates and events at hand
C15_Witness ==
    /\ pc[1] = "rejected"
    /\ error[1] = "getUserTopCategory"
    /\ candidates[1] # << >>
    /\ result[1] = << >>
    /\ diag.pc = "rejected"
    /\ diag.error = "getProductsByIds"
    /\ diag.events # << >>
    /\ diag.result = Null

\* the user has no row in the Event table
NoEventsOf(userId) ==
    \A i \in 1..Len(events) : events[i].userId # userId

\* C16: for a user without events getUserDiagnostics returns totalEvents 0,
\* no top categories, no boosted tags and a generic explanation that is not
\* empty, and it does so straight from the history lookup: the product
\* lookup is never issued for such a user.
C16_NoHistoryDiagnostics ==
    [][/\ (/\ diag.pc = "events"
           /\ diag'.pc \notin {"events", "rejected"}
           /\ NoEventsOf(diag.userId)) =>
              /\ diag'.pc = "resolved"
              /\ diag'.error = ""
              /\ diag'.productIds = << >>
              /\ diag'.result.userId = diag.userId
              /\ diag'.result.totalEvents = 0
              /\ diag'.result.topCategories = << >>
              /\ diag'.result.topBoostedTags = << >>
              /\ diag'.result.rankingExplanation # ""
       /\ diag'.pc = "products" => ~NoEventsOf(diag'.userId)
       /\ diag.pc = "resolved" => diag'.pc \in {"resolved", "idle"}
      ]_vars

\* the zero summary returned to a user while another user has events
C16_Witness ==
    /\ diag.pc = "resolved"
    /\ NoEventsOf(diag.userId)
    /\ events # << >>
    /\ diag.result.totalEvents = 0
    /\ diag.result.rankingExplanation # ""

\* the product an event row refers to
productOf(e) ==
    CHOOSE x \in products : x.id = e.productId

\* the number of the analysed events on products of a category
categoryTally(evs, category) ==
    Cardinality({i \in 1..Len(evs) : productOf(evs[i]).category = category})

\* the number of times a tag occurs on the products of the analysed events
tagTally(evs, tag) ==
    Cardinality({ij \in (1..Len(evs)) \X (1..3) :
                    /\ ij[2] <= Len(productOf(evs[ij[1]]).tags)
                    /\ productOf(evs[ij[1]]).tags[ij[2]] = tag})

\* the categories and tags the analysed events touch
TalliedCategories(evs) ==
    {productOf(evs[i]).category : i \in 1..Len(evs)}

TalliedTags(evs) ==
    UNION {{productOf(evs[i]).tags[j] : j \in 1..Len(productOf(evs[i]).tags)} :
             i \in 1..Len(evs)}

\* C17: topCategories has at most 5 entries in non-increasing order of
\* interactionCount and leaves out no category with a strictly higher count
\* than one it lists; topBoostedTags has at most 10 tags in non-increasing
\* order of their tally and leaves out no tag with a strictly higher tally
\* than one it lists.
C17_TopListsOrdered ==
    (diag.pc = "resolved" /\ diag.events # << >>) =>
        LET evs  == diag.events
            cats == diag.result.topCategories
            tags == diag.result.topBoostedTags
        IN  /\ Len(cats) = Min(5, Cardinality(TalliedCategories(evs)))
            /\ \A i \in 1..Len(cats) :
                  cats[i].interactionCount = categoryTally(evs, cats[i].category)
            /\ \A i, j \in 1..Len(cats) :
                  i < j => /\ cats[i].interactionCount >= cats[j].interactionCount
                           /\ cats[i].category # cats[j].category
            /\ \A category \in TalliedCategories(evs) :
                  (\A i \in 1..Len(cats) : cats[i].category # category) =>
                      \A i \in 1..Len(cats) :
                          cats[i].interactionCount >= categoryTally(evs, category)
            /\ Len(tags) = Min(10, Cardinality(TalliedTags(evs)))
            /\ \A i, j \in 1..Len(tags) :
                  i < j => /\ tagTally(evs, tags[i]) >= tagTally(evs, tags[j])
                           /\ tags[i] # tags[j]
            /\ \A tag \in TalliedTags(evs) :
                  (\A i \in 1..Len(tags) : tags[i] # tag) =>
                      \A i \in 1..Len(tags) :
                          tagTally(evs, tags[i]) >= tagTally(evs, tag)

\* six categories and more than ten tags tallied, so that both lists are cut,
\* with a first category counted more often than the last one listed
C17_Witness ==
    /\ diag.pc = "resolved"
    /\ diag.events # << >>
    /\ Cardinality(TalliedCategories(diag.events)) = 6
    /\ Cardinality(TalliedTags(diag.events)) > 10
    /\ Len(diag.result.topCategories) = 5
    /\ Len(diag.result.topBoostedTags) = 10
    /\ diag.result.topCategories[1].interactionCount
          > diag.result.topCategories[5].interactionCount

\* the number of events of a user on products of a category, each event once
eventCount(userId, category) ==
    Cardinality({i \in 1..Len(events) :
                    /\ events[i].userId = userId
                    /\ productOf(events[i]).category = category})

\* the category labels a user has events on; the empty string is no label
UserCategories(userId) ==
    {productOf(events[i]).category :
        i \in {j \in 1..Len(events) : events[j].userId = userId}} \ {""}

\* the category of the product a groupBy row is about; "" without product
rowCategory(row) ==
    IF \E x \in products : x.id = row.productId
    THEN (CHOOSE x \in products : x.id = row.productId).category
    ELSE ""

\* the category labels among the rows of a groupBy reply
CountedCategories(rows) ==
    {rowCategory(rows[i]) : i \in 1..Len(rows)} \ {""}

\* the events the rows of a groupBy reply count for a category
RECURSIVE countedEvents(_, _)
countedEvents(rows, category) ==
    IF rows = << >>
    THEN 0
    ELSE (IF rowCategory(Head(rows)) = category THEN Head(rows).count ELSE 0)
         + countedEvents(Tail(rows), category)

\* every category a user has events on, the empty one included
HistoryCategories(userId) ==
    {productOf(events[i]).category :
        i \in {j \in 1..Len(events) : events[j].userId = userId}}

\* every category among the rows of a groupBy reply, the empty one included
RowCategories(rows) ==
    {rowCategory(rows[i]) : i \in 1..Len(rows)}

\* the rows count every event the user has in the Event table, once
CountsTheEventTable(rows, userId) ==
    /\ \A i, j \in 1..Len(rows) : i # j => rows[i].productId # rows[j].productId
    /\ \A i \in 1..Len(rows) : rows[i].count > 0
    /\ \A x \in products :
          Cardinality({i \in 1..Len(events) : /\ events[i].userId = userId
                                             /\ events[i].productId = x.id})
             = IF \E i \in 1..Len(rows) : rows[i].productId = x.id
               THEN rows[CHOOSE i \in 1..Len(rows) : rows[i].productId = x.id].count
               ELSE 0
    /\ RowCategories(rows) = HistoryCategories(userId)
    /\ \A category \in HistoryCategories(userId) :
          countedEvents(rows, category) = eventCount(userId, category)

\* C18: the history lookup of a ranking call counts the user's events as
\* the Event table holds them when its groupBy query is answered, each
\* event once, and resolves with nothing when the user has no events.  For
\* a user with events it resolves with exactly one category of the products
\* those events are on, one that no other such category outnumbers,
\* together with the number of its events.
C18_TopCategoryIsMostFrequent ==
    [][\A c \in Calls :
          /\ (/\ pc[c] = "topCategory"
              /\ pc'[c] # "topCategory"
              /\ ~(pc'[c] = "rejected" /\ error'[c] = "getUserTopCategory")) =>
                 /\ CountsTheEventTable(groupByResult'[c], params[c].userId)
                 /\ NoEventsOf(params[c].userId) <=> pc'[c] # "topCategoryProducts"
                 /\ NoEventsOf(params[c].userId) => userTopCategory'[c] = Null
          /\ (/\ pc[c] = "topCategoryProducts"
              /\ pc'[c] # "topCategoryProducts"
              /\ ~(pc'[c] = "rejected" /\ error'[c] = "getUserTopCategory")) =>
                 LET rows == groupByResult[c]
                     top  == userTopCategory'[c]
                 IN  /\ top # Null
                     /\ top.category \in RowCategories(rows)
                     /\ top.count = countedEvents(rows, top.category)
                     /\ \A other \in RowCategories(rows) :
                           top.count >= countedEvents(rows, other)
      ]_vars

\* What the lookup does when the categories are only the non-empty ones:
\* it resolves with a non-empty category that no other non-empty category
\* outnumbers, with the number of its events, whatever the order of the
\* rows; and with nothing when none of the user's events is on a product
\* with a non-empty category.
C18_MostCountedLabelledCategory ==
    [][\A c \in Calls :
          /\ (/\ pc[c] = "topCategory"
              /\ pc'[c] # "topCategory"
              /\ ~(pc'[c] = "rejected" /\ error'[c] = "getUserTopCategory")) =>
                 /\ CountsTheEventTable(groupByResult'[c], params[c].userId)
                 /\ NoEventsOf(params[c].userId) <=> pc'[c] # "topCategoryProducts"
                 /\ NoEventsOf(params[c].userId) => userTopCategory'[c] = Null
          /\ (/\ pc[c] = "topCategoryProducts"
              /\ pc'[c] # "topCategoryProducts"
              /\ ~(pc'[c] = "rejected" /\ error'[c] = "getUserTopCategory")) =>
                 LET rows == groupByResult[c]
                     top  == userTopCategory'[c]
                 IN  IF CountedCategories(rows) = {}
                     THEN top = Null
                     ELSE /\ top # Null
                          /\ top.category \in CountedCategories(rows)
                          /\ top.count = countedEvents(rows, top.category)
                          /\ \A other \in CountedCategories(rows) :
                                top.count >= countedEvents(rows, other)
      ]_vars

\* a category resolved with count 2 from events on two different products,
\* for a user who has fewer events, but some, on another category
C18_LabelledWitness ==
    /\ pc[1] = "resolved"
    /\ userTopCategory[1] # Null
    /\ userTopCategory[1].count = 2
    /\ eventCount(params[1].userId, userTopCategory[1].category) = 2
    /\ \E i, j \in 1..Len(events) :
          /\ events[i].productId # events[j].productId
          /\ productOf(events[i]).category = userTopCategory[1].category
          /\ productOf(events[j]).category = userTopCategory[1].category
    /\ \E other \in UserCategories(params[1].userId) :
          /\ eventCount(params[1].userId, other) = 1
          /\ other # userTopCategory[1].category

\* a category resolved with count 3 from three events on one product, for a
\* user who has two events on another category
C18_RepeatedProductWitness ==
    /\ pc[1] = "resolved"
    /\ userTopCategory[1] # Null
    /\ userTopCategory[1].count = 3
    /\ Len(groupByResult[1]) = 3
    /\ \E other \in UserCategories(params[1].userId) :
          eventCount(params[1].userId, other) = 2

\* the lookup answered with nothing for a user whose events, two of them,
\* are on the product without category
C18_EmptyCategoryWitness ==
    /\ pc[1] = "resolved"
    /\ userTopCategory[1] = Null
    /\ groupByResult[1] # << >>
    /\ eventCount(params[1].userId, "") = 2

\* C19: the Event table only grows by appending.  A step either leaves it
\* as it is or adds exactly one row, the tracked one, after the rows already
\* there, which stay as they were; a step of a ranking or diagnostics call
\* leaves the Event table alone; and no step changes the Product table.
C19_EventStoreAppendOnly ==
    [][/\ products' = products
       /\ \/ events' = events
          \/ /\ Len(events') = Len(events) + 1
             /\ SubSeq(events', 1, Len(events)) = events
             /\ << events'[Len(events')].userId,
                   events'[Len(events')].productId,
                   events'[Len(events')].eventType >> \in TrackInputs
       /\ (callVars' # callVars \/ diag' # diag) => events' = events
      ]_vars

\* two different rows recorded, with a ranking call and a diagnostics call
\* both returned after them
C19_Witness ==
    /\ Len(events) = 2
    /\ events[1] # events[2]
    /\ pc[1] = "resolved"
    /\ result[1] # << >>
    /\ diag.pc = "resolved"
    /\ diag.result.totalEvents > 0

\* the user's events make this category strictly the most frequent one
StrictlyMostFrequent(userId, category) ==
    /\ category \in UserCategories(userId)
    /\ \A other \in UserCategories(userId) \ {category} :
          eventCount(userId, category) > eventCount(userId, other)

\* the rows of a groupBy reply make this category strictly the most counted
StrictlyMostCounted(rows, category) ==
    /\ category \in CountedCategories(rows)
    /\ \A other \in CountedCategories(rows) \ {category} :
          countedEvents(rows, category) > countedEvents(rows, other)

\* C20: the learned category is looked up anew by every ranking call.  The
\* groupBy query of a call reads the Event table as it is when the query is
\* answered, so with every event recorded before the call began; and when
\* those counts make one category strictly the user's most frequent, the
\* list the call ranks gives the learning boost of 15 to the candidates of
\* that category and 0 to every other candidate, whatever earlier calls had
\* found.
C20_LearnedCategoryFresh ==
    [][\A c \in Calls :
          /\ (/\ pc[c] = "topCategory"
              /\ pc'[c] \in {"topCategoryProducts", "explanations", "resolved"}) =>
                 /\ \A i \in 1..Len(events) :
                       events[i].userId = params[c].userId =>
                           \E k \in 1..Len(groupByResult'[c]) :
                               groupByResult'[c][k].productId = events[i].productId
                 /\ \A category \in UserCategories(params[c].userId) :
                       StrictlyMostFrequent(params[c].userId, category)
                          <=> StrictlyMostCounted(groupByResult'[c], category)
          /\ (/\ pc[c] = "topCategoryProducts"
              /\ pc'[c] \in {"explanations", "resolved"}) =>
                 \A category \in CountedCategories(groupByResult[c]) :
                     StrictlyMostCounted(groupByResult[c], category) =>
                         /\ userTopCategory'[c] # Null
                         /\ userTopCategory'[c].category = category
                         /\ \A i \in 1..Len(topRecommendations'[c]) :
                               topRecommendations'[c][i].scoreBreakdown.learningBoost =
                                  IF topRecommendations'[c][i].category = category
                                  THEN 15 ELSE 0
      ]_vars

\* a call returned after the user's events, with the candidate of the user's
\* strictly most frequent category boosted and another candidate not
C20_Witness ==
    /\ pc[1] = "resolved"
    /\ events # << >>
    /\ \E i, j \in 1..Len(result[1]) :
          /\ StrictlyMostFrequent(params[1].userId, result[1][i].category)
          /\ result[1][i].scoreBreakdown.learningBoost = 15
          /\ result[1][j].scoreBreakdown.learningBoost = 0

\* the relationship values a request may carry
Relationships ==
    {"friend", "partner", "parent", "sibling", "colleague", "child", "other"}

\* a body that passes validation as the claim words it
WellFormed(body) ==
    /\ isUuid(body.userId)
    /\ body.budget >= 0
    /\ Len(body.interests) >= 1
    /\ Has(body, "age") => body.age \in 0..120
    /\ Has(body, "recipientAge") => body.recipientAge \in 0..120
    /\ Has(body, "relationship") => body.relationship \in Relationships

\* C21: a request that fails validation (userId not a UUID, negative
\* budget, no interests, age outside 0..120, relationship outside the
\* enumeration) is answered with 400, and nothing is looked up or generated
\* for it: the call never leaves its idle position.
C21_InvalidRequestRejected ==
    \A c \in Calls :
        (http[c].body # Null /\ ~WellFormed(http[c].body)) =>
            /\ http[c].status = 400
            /\ pc[c] = "idle"
            /\ candidates[c] = << >>
            /\ aiPending[c] = {}

\* a request with a relationship outside the enumeration has been answered
\* with 400 while the call did nothing, and the Event table had a row of the
\* user to look up
C21_Witness ==
    /\ http[1].body # Null
    /\ Has(http[1].body, "relationship")
    /\ http[1].body.relationship = "boss"
    /\ http[1].status = 400
    /\ pc[1] = "idle"
    /\ candidates[1] = << >>
    /\ events # << >>

\* C22: getRecommendations invoked without a limit returns at most 10 items.
C22_DefaultTopTen ==
    \A c \in Calls :
        (pc[c] = "resolved" /\ limit[c] = DefaultLimit) => Len(result[c]) <= 10

\* C23: a ranking call asks the catalog for at most 100 candidates and
\* scores no more than it got, whatever the limit and the size of the
\* Product table; so the ranked list and the result have at most 100 items.
C23_CandidateCap ==
    \A c \in Calls :
        /\ Len(candidates[c]) <= 100
        /\ Len(candidates[c]) <= Cardinality(products)
        /\ Len(topRecommendations[c]) <= Len(candidates[c])
        /\ Len(result[c]) <= Len(candidates[c])
        /\ pc[c] = "resolved" => Len(result[c]) = Min(limit[c], Len(candidates[c]))

\* 102 admissible products and a limit of 150: 100 items are returned
C23_Witness ==
    /\ Cardinality(products) = 102
    /\ params[1] # Null
    /\ params[1].budget = 100
    /\ limit[1] = 150
    /\ pc[1] = "resolved"
    /\ Len(candidates[1]) = 100
    /\ Len(result[1]) = 100

\* the position at which the catalog lookup returned a product
retrievalIndex(c, id) ==
    CHOOSE k \in 1..Len(candidates[c]) : candidates[c][k].id = id

\* C30: candidates with equal total score keep, in the result, the order
\* in which the catalog lookup returned them, and the result is the one
\* list that the request, the candidate sequence and the learned category
\* determine.
C30_TiesInRetrievalOrder ==
    \A c \in Calls :
        (pc[c] = "resolved" /\ candidates[c] # << >>) =>
            /\ \A i, j \in 1..Len(result[c]) :
                  (i < j /\ result[c][i].score = result[c][j].score) =>
                      retrievalIndex(c, result[c][i].id)
                          < retrievalIndex(c, result[c][j].id)
            /\ \A i \in 1..Len(result[c]) :
                  \A k \in 1..Len(candidates[c]) :
                      (/\ \A j \in 1..Len(result[c]) :
                             result[c][j].id # candidates[c][k].id
                       /\ totalOf(candidates[c][k], c) = result[c][i].score) =>
                          retrievalIndex(c, result[c][i].id) < k
            /\ ~aiEnabled => result[c] = deterministicRanking(c)

\* a result whose first two items have the same score, cut so that a
\* candidate with that score is left out
C30_Witness ==
    /\ pc[1] = "resolved"
    /\ Len(result[1]) >= 2
    /\ Len(result[1]) < Len(candidates[1])
    /\ result[1][1].score = result[1][2].score
    /\ \E k \in 1..Len(candidates[1]) :
          /\ \A j \in 1..Len(result[1]) : result[1][j].id # candidates[1][k].id
          /\ totalOf(candidates[1][k], 1) = result[1][Len(result[1])].score

\* the category getUserDiagnostics names first, on the Event table as it is
diagnosticsTopCategory(userId) ==
    LET evs == getUserEvents(userId, DiagnosticsEventLimit)
        summary == summarize(userId, evs,
                             getProductsByIds(uniqueProductIds(evs, << >>)))
    IN  IF evs = << >> \/ summary.topCategories = << >>
        THEN Undefined
        ELSE << summary.topCategories[1].category >>

\* C24: on one and the same Event table, the category getUserDiagnostics
\* puts first in topCategories, and names in its explanation as boosted, is
\* the learned category getRecommendations resolves for that user, whatever
\* order the history lookup's rows come in; both are absent together.
C24_DiagnosticsNamesLearnedCategory ==
    \A userId \in DiagnosticsUsers :
        \A top \in getUserTopCategory(userId) :
            categoryArg(top) = diagnosticsTopCategory(userId)

\* the analysed events whose product is among the fetched ones
foundEvents(evs, fetched) ==
    {i \in 1..Len(evs) : \E x \in fetched : x.id = evs[i].productId}

\* the sum of the values of a Map kept as its entries
RECURSIVE sumOfValues(_)
sumOfValues(entries) ==
    IF entries = << >> THEN 0 ELSE Head(entries)[2] + sumOfValues(Tail(entries))

\* C25: in getUserDiagnostics every fetched event whose product is found
\* adds exactly 1 to the tally of the product's category and 1 to a tag's
\* tally for each occurrence of the tag on the product, repeated events on
\* one product included; so the category tallies, before the cut to five,
\* sum to the number of fetched events whose product is found, which is at
\* most totalEvents.  Stated for the fetched products and for every part of
\* them, as if the product lookup had not found the others.
C25_TalliesCountEveryEvent ==
    (diag.pc \in {"products", "resolved"} /\ diag.events # << >>) =>
        LET evs == diag.events
        IN  /\ \A fetched \in SUBSET getProductsByIds(diag.productIds) :
                  LET categories == categoryCount(evs, fetched, << >>)
                      tags       == tagCount(evs, fetched, << >>)
                      found      == foundEvents(evs, fetched)
                  IN  /\ \A k \in 1..Len(categories) :
                            /\ categories[k][2] =
                                  Cardinality({i \in found :
                                      productOf(evs[i]).category = categories[k][1]})
                            /\ \A l \in 1..Len(categories) :
                                  k # l => categories[k][1] # categories[l][1]
                      /\ \A i \in found :
                            \E k \in 1..Len(categories) :
                                categories[k][1] = productOf(evs[i]).category
                      /\ \A k \in 1..Len(tags) :
                            tags[k][2] =
                               Cardinality({ij \in found \X (1..3) :
                                  /\ ij[2] <= Len(productOf(evs[ij[1]]).tags)
                                  /\ productOf(evs[ij[1]]).tags[ij[2]] = tags[k][1]})
                      /\ sumOfValues(categories) = Cardinality(found)
                      /\ sumOfValues(categories) <= Len(evs)
            /\ diag.pc = "resolved" =>
                  /\ diag.result.totalEvents = Len(evs)
                  /\ Cardinality(TalliedCategories(evs)) <= TopCategoriesLimit =>
                        sumOfValues([k \in 1..Len(diag.result.topCategories) |->
                            << diag.result.topCategories[k].category,
                               diag.result.topCategories[k].interactionCount >>])
                          = diag.result.totalEvents

\* a summary returned with a category counted three times from three events
\* on one and the same product
C25_Witness ==
    /\ diag.pc = "resolved"
    /\ diag.events # << >>
    /\ \E k \in 1..Len(diag.result.topCategories) :
          /\ diag.result.topCategories[k].interactionCount = 3
          /\ Cardinality({diag.events[i].productId :
                i \in {j \in 1..Len(diag.events) :
                         productOf(diag.events[j]).category =
                            diag.result.topCategories[k].category}}) = 1
    /\ diag.result.totalEvents > 3

\* the lists a call with these arguments can return when it runs alone on
\* the Product and Event tables as they are: one ranked list per outcome of
\* the history lookup, each of its first five items with the text generated
\* for this call or with null, the others with null
ReturnsAlone(c, p, lim, list) ==
    \E top \in getUserTopCategory(p.userId) :
        LET cands  == getRecommendationCandidates(times1_15(p.budget), CandidateLimit)
            ranked == scoreAndRank(cands, p, lim, categoryArg(top)).list
        IN  /\ Len(list) = Len(ranked)
            /\ \A i \in 1..Len(list) :
                  IF aiEnabled
                  THEN /\ list[i] = [aiExplanation |-> list[i].aiExplanation]
                                       @@ ranked[i]
                       /\ \/ list[i].aiExplanation = Null
                          \/ /\ i <= 5
                             /\ list[i].aiExplanation = GeneratedText(c, ranked[i].id)
                  ELSE list[i] = ranked[i]

\* C26: ranking calls that interleave at their suspension points share
\* nothing.  Each call's candidates are those of its own request, the texts
\* it has received are those generated for it, and the list it returns is a
\* list it can return when run alone; no text generated for another call is
\* in it.
C26_CallsIndependent ==
    \A c \in Calls :
        /\ pc[c] \in {"topCategory", "topCategoryProducts", "explanations",
                     "resolved"} =>
              candidates[c] =
                 getRecommendationCandidates(times1_15(params[c].budget),
                                             CandidateLimit)
        /\ \A id \in DOMAIN explanations[c] :
              /\ explanations[c][id] = GeneratedText(c, id)
              /\ \E i \in 1..Len(topRecommendations[c]) :
                    topRecommendations[c][i].id = id
        /\ pc[c] = "resolved" =>
              ReturnsAlone(c, params[c], limit[c], result[c])

\* both calls returned, for different users, each with a text for the one
\* product that both of them rank
C26_Witness ==
    /\ pc[1] = "resolved"
    /\ pc[2] = "resolved"
    /\ params[1].userId # params[2].userId
    /\ \E i \in 1..Len(result[1]), j \in 1..Len(result[2]) :
          /\ result[1][i].id = result[2][j].id
          /\ result[1][i].aiExplanation = GeneratedText(1, result[1][i].id)
          /\ result[2][j].aiExplanation = GeneratedText(2, result[2][j].id)

\* C27: the generation requests of a call are issued together.  The step
\* that starts the batch puts the requests of all of the first five items
\* in flight before any response has been received, and from then on the
\* response of any request still in flight can arrive next, whichever of
\* its siblings have completed.
C27_RequestsIssuedTogether ==
    /\ [][\A c \in Calls :
            (pc[c] # "explanations" /\ pc'[c] = "explanations") =>
               /\ explanations'[c] = EmptyMap
               /\ aiPending'[c] =
                     {topRecommendations'[c][i].id :
                        i \in 1..Min(5, Len(topRecommendations'[c]))}
         ]_vars
    /\ [](\A c \in Calls :
            pc[c] = "explanations" =>
               \A id \in aiPending[c] : ENABLED ExplanationSettle(c, id, "text"))

\* the fifth item's text has arrived while the requests of the first four
\* are still in flight
C27_Witness ==
    /\ pc[1] = "explanations"
    /\ Len(topRecommendations[1]) >= 5
    /\ DOMAIN explanations[1] = {topRecommendations[1][5].id}
    /\ aiPending[1] = {topRecommendations[1][i].id : i \in 1..4}

C29_UnrecognisedOccasionFallback ==
    (/\ scoreOut # Null
     /\ OccasionGiven(scoreArgs.params)
     /\ ~\E e \in occasionMap :
            e[1] = toLowerCase(scoreArgs.params.occasion))
        => /\ getOccasionKeywords(scoreArgs.params.occasion) =
                 [array |-> << toLowerCase(scoreArgs.params.occasion) >>]
           /\ ~Has(scoreOut, "throws")

====
